---- MODULE Spec2Model ----
(***************************************************************************)
(* dd-llm: the adapter registry (dd_llm/registry.py) and the retry /       *)
(* fallback orchestrator UnifiedLLMProvider (dd_llm/provider.py).          *)
(*                                                                         *)
(* One call() is a walk through the positions                              *)
(*   idle -> select -> resolve -> attempt -> (sleep -> attempt)* -> done   *)
(* Every external event (a constructor call, an adapter call, a sleep)     *)
(* is one step; its outcome is chosen by the environment.                  *)
(***************************************************************************)
EXTENDS Integers, Sequences, FiniteSets, TLC

(***************************************************************************)
(* Bounds of the model.                                                    *)
(***************************************************************************)
MaxRetries == 2
MaxFallbacks == 2
MaxCalls == 1
MaxSeqCalls == 2
MaxBackoffRetries == 4
MaxRegOps == 4
MaxConcChains == 2
MaxCliCalls == 2
MaxReports == 2
MaxMeanCalls == 3

Names == {"a", "b", "c"}
Ctors == {"K1"}
RegistryCtors == {"K1", "K2"}
NoCtor == "none"
NoName == "none"
NoText == "none"

\* random.uniform(0.1, 0.3), in percent of wait_time
JitterPct == {10, 29}
\* (initial_wait, max_wait); durations are integers, in hundredths of a second
Waits == {<<100, 300>>}
BackoffWaits == {<<100, 300>>, <<100, 100>>, <<100, 250>>, <<300, 100>>}

\* the threads of the concurrent runs and the backends they meet
Threads == {1, 2}
ConcNames == {"a", "b"}

VARIABLES
    registry,           \* _ADAPTER_REGISTRY: name -> constructor (NoCtor: absent)
    primary_provider,   \* self.primary_provider
    fallback_providers, \* self.fallback_providers
    max_retries,        \* self.max_retries
    initial_wait,       \* self.initial_wait
    max_wait,           \* self.max_wait
    provider_stats,     \* self.provider_stats: name -> stats (seen = FALSE: no entry)
    pc,                 \* position of the running call
    args,               \* arguments of the running call: prompt, messages, provider
    messages,           \* call(): messages after line 91
    error_history,      \* call(): error_history
    providers_to_try,   \* call(): providers_to_try
    registered,         \* call(): registered = set(list_adapters())
    idx,                \* call(): position of the for loop in providers_to_try
    adapter,            \* _try_provider(): adapter
    wait_time,          \* _try_provider(): wait_time
    local_errors,       \* _try_provider(): local_errors
    attempt,            \* _try_provider(): attempt
    result,             \* what call() returned
    raised,             \* the exception call() raised ("" when none)
    clock,              \* time.time() - start_time, in ticks
    calls,              \* number of call() invocations so far
    call_limit,         \* the number of call() invocations the run may make
    invocations,        \* log: every adapter.call of the running call
    resolutions,        \* log: every get_adapter of the running call
    sleeps,             \* log: the base wait of every time.sleep of the running call
    last_slept,         \* the duration of the time.sleep that just ended (0: none)
    stats_at_start,     \* provider_stats when the running call began
    history,            \* log: one summary per call() that has ended
    reg_trace,          \* log: the registry operations made before the first call()
    workers,            \* threads that call the orchestrator at the same time
    cli,                \* the ClaudeCLIAdapter: its settings and its latest call
    updates,            \* log: the arguments of every _update_stats of the orchestrator
    facade              \* dd_llm/__init__.py: _global_llm and the module's functions

cfgvars == <<primary_provider, fallback_providers, max_retries, initial_wait, max_wait>>
framevars == <<messages, error_history, providers_to_try, registered, idx,
               adapter, wait_time, local_errors, attempt>>
logvars == <<invocations, resolutions, sleeps, last_slept>>
vars == <<registry, cfgvars, provider_stats, pc, args, framevars, result, raised,
          clock, calls, call_limit, logvars, stats_at_start, history, reg_trace, workers, cli, updates, facade>>

(***************************************************************************)
(* Helpers.                                                                *)
(***************************************************************************)
\* a thread that has not called yet: where it is in call() / _update_stats,
\* the pending update, the value it loaded, and what its call has done so far
IdleWorker ==
    [pc |-> "run", name |-> NoName, success |-> FALSE, elapsed |-> 0, tmp |-> 0,
     chains |-> 0, ended |-> [n \in ConcNames |-> 0],
     answered |-> [n \in ConcNames |-> 0]]

\* the outcome of subprocess.run: the executable is missing, it runs out of
\* time, it may not be executed, or it exits with a code and two outputs
NoRun == [kind |-> "none", returncode |-> 0, stdout |-> "", stderr |-> ""]

\* no ClaudeCLIAdapter has been made
NoCli ==
    [made |-> FALSE, cli_path |-> "", timeout |-> 0, allowed_tools |-> <<>>,
     calls |-> 0, run |-> NoRun, cmd |-> <<>>, response |-> <<>>, raised |-> ""]

\* dd_llm was imported and none of its convenience functions has run:
\* _global_llm is None (instance 0), no orchestrator has been constructed
NoFacade ==
    [instance |-> 0, made |-> 0, pc |-> "idle", base |-> 0, used |-> <<>>,
     returned |-> <<>>, report |-> [n \in {} |-> 0], reports |-> 0]

Min(x, y) == IF x <= y THEN x ELSE y

RECURSIVE SeqsUpTo(_, _)
SeqsUpTo(S, n) ==
    IF n = 0 THEN {<<>>}
    ELSE LET shorter == SeqsUpTo(S, n - 1)
         IN  shorter \cup {Append(s, x) : s \in shorter, x \in S}

\* Python's  xs[-n:]
LastN(xs, n) ==
    IF Len(xs) <= n THEN xs ELSE SubSeq(xs, Len(xs) - n + 1, Len(xs))

\* Python's  [p for p in xs if p != x]
RECURSIVE Without(_, _)
Without(xs, x) ==
    IF xs = <<>> THEN <<>>
    ELSE IF Head(xs) = x THEN Without(Tail(xs), x)
         ELSE <<Head(xs)>> \o Without(Tail(xs), x)

RECURSIVE Gcd(_, _)
Gcd(x, y) == IF y = 0 THEN x ELSE Gcd(y, x % y)

(***************************************************************************)
(* dd_llm/base.py: LLMResponse.  error_history is a list or None: the      *)
(* list is kept in error_history and eh_none tells whether it is None.     *)
(***************************************************************************)
LLMResponse(content, success, provider, attempts, total_time, errs, none) ==
    [content |-> content, success |-> success, provider |-> provider,
     attempts |-> attempts, total_time |-> total_time,
     error_history |-> errs, eh_none |-> none]

NoResult == LLMResponse(NoText, FALSE, NoName, 0, 0, <<>>, TRUE)

\* the text of an error: it names the backend, the number of the invocation
\* that failed (0: the constructor) and the time, so no two texts are alike
ErrText(p, k, ts) == [by |-> p, k |-> k, at |-> ts]

\* one entry of an error history (provider.py lines 161-167, 192-198, 201-207)
ErrorRecord(p, k, text, type, ts) ==
    [provider |-> p, attempt |-> k, error |-> text, error_type |-> type,
     timestamp |-> ts]

(***************************************************************************)
(* What an adapter's call() can do on one invocation (base.py 41-53):      *)
(* return a successful response, return a failed one, or raise.            *)
(***************************************************************************)
Outcomes == {"ok", "fail", "raise"}

\* the provider name an adapter writes into its responses: the name it is
\* registered under ("self") or a name of its own
SelfNames == {"self", "mock"}

ReportedName(p, named) == IF named = "self" THEN p ELSE named

\* the response an adapter registered as p returns on its k-th invocation
AdapterResponse(p, k, ts, out, named) ==
    IF out = "ok"
    THEN LLMResponse("ok", TRUE, ReportedName(p, named), 1, 0, <<>>, TRUE)
    ELSE LLMResponse("", FALSE, ReportedName(p, named), 1, 0,
                     <<[error |-> ErrText(p, k, ts), error_type |-> "Upstream"]>>,
                     FALSE)

(***************************************************************************)
(* dd_llm/registry.py                                                      *)
(***************************************************************************)
\* the names list_adapters() returns (call() only makes a set of them)
list_adapters == {n \in Names : registry[n] # NoCtor}

\* get_adapter: "unknown" when the name is absent, else the constructor to call
get_adapter(name) ==
    IF registry[name] = NoCtor THEN "unknown" ELSE registry[name]

\* one entry of reg_trace: the operation, its arguments and what it returned
RegOp(op, name, ctor, names, exc) ==
    [op |-> op, name |-> name, ctor |-> ctor, names |-> names, raised |-> exc]

\* the order of str values that sorted() uses, on the names of the model
NameRank == [n \in Names |-> CASE n = "a" -> 1 [] n = "b" -> 2 [] n = "c" -> 3]

InsertSorted(x, xs) ==
    LET k == Cardinality({i \in 1..Len(xs) : NameRank[xs[i]] < NameRank[x]})
    IN  SubSeq(xs, 1, k) \o <<x>> \o SubSeq(xs, k + 1, Len(xs))

\* faulty variant: the keys are returned in the order the dict holds them
Sorted_AsStored(xs) == xs

\* sorted(...) of a list of names
RECURSIVE Sorted(_)
Sorted(xs) ==
    IF xs = <<>> THEN <<>> ELSE InsertSorted(Head(xs), Sorted(Tail(xs)))

\* the keys a dict holds after the registrations of trace, in the dict's
\* own order: a key keeps the place of its first insertion
RECURSIVE KeysAfter(_)
KeysAfter(trace) ==
    IF trace = <<>> THEN <<>>
    ELSE LET prev == KeysAfter(SubSeq(trace, 1, Len(trace) - 1))
             e == trace[Len(trace)]
         IN  IF e.op = "register" /\ \A i \in 1..Len(prev) : prev[i] # e.name
             THEN Append(prev, e.name) ELSE prev

\* _ADAPTER_REGISTRY.keys(), before the first call()
RegistryKeys == KeysAfter(reg_trace)

\* faulty variant: a name that is already registered keeps its constructor
Registered_FirstWins(reg, name, ctor) ==
    IF reg[name] = NoCtor THEN [reg EXCEPT ![name] = ctor] ELSE reg

\* registry.py line 24: _ADAPTER_REGISTRY[name] = cls
Registered(reg, name, ctor) == [reg EXCEPT ![name] = ctor]

RegisterAdapter(name, ctor) ==
    /\ pc \in {"idle", "done"}
    /\ calls < call_limit
    /\ calls = 0 => Len(reg_trace) < MaxRegOps
    /\ registry' = Registered(registry, name, ctor)
    /\ reg_trace' = IF calls = 0
                    THEN Append(reg_trace, RegOp("register", name, ctor, <<>>, ""))
                    ELSE reg_trace
    /\ UNCHANGED <<cfgvars, provider_stats, pc, args, framevars, result, raised,
                   clock, calls, call_limit, logvars, stats_at_start, history,
                   workers, cli, updates, facade>>

\* registry.py lines 17-24 called by another thread while a call() is running
RegisterDuringCall(name, ctor) ==
    /\ pc \notin {"idle", "done"}
    /\ registry' = Registered(registry, name, ctor)
    /\ UNCHANGED <<cfgvars, provider_stats, pc, args, framevars, result, raised,
                   clock, calls, call_limit, logvars, stats_at_start, history,
                   reg_trace, workers, cli, updates, facade>>

\* faulty variant: the message lists the names in the order the dict holds them
UnknownAdapterNames_AsStored == RegistryKeys

\* registry.py line 30: the names the "Unknown adapter" message lists
UnknownAdapterNames == Sorted(RegistryKeys)

\* registry.py lines 27-32 called directly: the instance of the registered
\* constructor, or ValueError naming the sorted registered names
GetAdapter(name, ctor_ok) ==
    /\ calls = 0
    /\ Len(reg_trace) < MaxRegOps
    /\ LET ctor == get_adapter(name)
       IN  reg_trace' = Append(reg_trace,
               IF ctor = "unknown"
               THEN RegOp("get", name, "unknown", UnknownAdapterNames, "ValueError")
               ELSE RegOp("get", name, ctor, <<>>,
                          IF ctor_ok THEN "" ELSE "TypeError"))
    /\ UNCHANGED <<registry, cfgvars, provider_stats, pc, args, framevars, result,
                   raised, clock, calls, call_limit, logvars, stats_at_start, history,
                   workers, cli, updates, facade>>

\* registry.py lines 35-37 called directly
ListAdapters ==
    /\ calls = 0
    /\ Len(reg_trace) < MaxRegOps
    /\ reg_trace' = Append(reg_trace,
                           RegOp("list", NoName, NoCtor, Sorted(RegistryKeys), ""))
    /\ UNCHANGED <<registry, cfgvars, provider_stats, pc, args, framevars, result,
                   raised, clock, calls, call_limit, logvars, stats_at_start, history,
                   workers, cli, updates, facade>>

(***************************************************************************)
(* provider.py: _update_stats (lines 243-256).  avg_time is the rational   *)
(* num/den in lowest terms.                                                *)
(***************************************************************************)
NoStats == [seen |-> FALSE, successes |-> 0, failures |-> 0, num |-> 0, den |-> 1]

\* call() lines 115 and 119: the arguments of one self._update_stats(...)
StatsUpdate(name, success, elapsed) ==
    [name |-> name, success |-> success, elapsed |-> elapsed]

\* faulty variant: the entry is created anew on every update
StatsEntry_Fresh(stats, name) ==
    [seen |-> TRUE, successes |-> 0, failures |-> 0, num |-> 0, den |-> 1]

\* lines 244-250: the entry of the name, created on its first update
StatsEntry(stats, name) ==
    IF stats[name].seen THEN stats[name]
    ELSE [seen |-> TRUE, successes |-> 0, failures |-> 0, num |-> 0, den |-> 1]

\* faulty variant: avg_time is the mean of the old average and the new value
UpdateStats_Smoothed(stats, name, success, elapsed) ==
    LET old == StatsEntry(stats, name)
        s == IF success THEN old.successes + 1 ELSE old.successes
        f == IF success THEN old.failures ELSE old.failures + 1
        n == old.num + elapsed * old.den
        d == old.den * 2
        g == Gcd(n, d)
    IN  [stats EXCEPT ![name] =
            [seen |-> TRUE, successes |-> s, failures |-> f,
             num |-> n \div g, den |-> d \div g]]

\* lines 243-256; avg_time is the rational num / den in lowest terms
UpdateStats(stats, name, success, elapsed) ==
    LET old == StatsEntry(stats, name)
        s == IF success THEN old.successes + 1 ELSE old.successes
        f == IF success THEN old.failures ELSE old.failures + 1
        total == s + f
        n == old.num * (total - 1) + elapsed * old.den
        d == old.den * total
        g == Gcd(n, d)
    IN  [stats EXCEPT ![name] =
            [seen |-> TRUE, successes |-> s, failures |-> f,
             num |-> n \div g, den |-> d \div g]]

(***************************************************************************)
(* provider.py: _update_stats (lines 243-256) when several threads call    *)
(* the same orchestrator.  The method takes no lock, so its statements     *)
(* interleave: the test for the entry, the creation of the entry, the      *)
(* load and the store of "+= 1", and the update of avg_time are steps of   *)
(* their own.  A thread's call() is cut down to the ends of its chains.    *)
(***************************************************************************)
callframe == <<registry, cfgvars, pc, args, framevars, result, raised, clock, calls,
               call_limit, logvars, stats_at_start, history, reg_trace, updates,
               facade>>
concframe == <<callframe, cli>>

Counter(w) == IF w.success THEN "successes" ELSE "failures"

\* call() lines 114 and 118: a chain of thread t ends and _update_stats is entered
ConcChainEnds(t, name, success, elapsed) ==
    /\ workers[t].pc = "run"
    /\ workers[t].chains < MaxConcChains
    /\ workers' = [workers EXCEPT ![t] =
           [@ EXCEPT !.pc = "check", !.name = name, !.success = success,
                     !.elapsed = elapsed, !.chains = @ + 1,
                     !.ended[name] = @ + 1,
                     !.answered[name] = IF success THEN @ + 1 ELSE @]]
    /\ UNCHANGED <<provider_stats, concframe>>

\* line 244: if provider_name not in self.provider_stats
ConcCheck(t) ==
    /\ workers[t].pc = "check"
    /\ workers' = [workers EXCEPT ![t].pc =
           IF provider_stats[workers[t].name].seen THEN "load" ELSE "create"]
    /\ UNCHANGED <<provider_stats, concframe>>

\* lines 245-249: the new entry is stored
ConcCreate(t) ==
    /\ workers[t].pc = "create"
    /\ provider_stats' = [provider_stats EXCEPT ![workers[t].name] =
           [seen |-> TRUE, successes |-> 0, failures |-> 0, num |-> 0, den |-> 1]]
    /\ workers' = [workers EXCEPT ![t].pc = "load"]
    /\ UNCHANGED concframe

\* lines 252 and 254: the left half of "+= 1" reads the counter
ConcLoad(t) ==
    /\ workers[t].pc = "load"
    /\ workers' = [workers EXCEPT ![t] =
           [@ EXCEPT !.pc = "store",
                     !.tmp = provider_stats[workers[t].name][Counter(workers[t])]]]
    /\ UNCHANGED <<provider_stats, concframe>>

\* lines 252 and 254: the right half of "+= 1" writes the counter
ConcStore(t) ==
    /\ workers[t].pc = "store"
    /\ provider_stats' = [provider_stats EXCEPT
           ![workers[t].name][Counter(workers[t])] = workers[t].tmp + 1]
    /\ workers' = [workers EXCEPT ![t].pc = "avg"]
    /\ UNCHANGED concframe

\* lines 255-256: total and avg_time; then call() returns (a success), goes
\* on to its next chain, or returns all_failed.  total = 0 is a division by
\* zero, which leaves call() as an exception.
ConcAvg(t) ==
    /\ workers[t].pc = "avg"
    /\ LET w == workers[t]
           old == provider_stats[w.name]
           total == old.successes + old.failures
       IN  IF total = 0
           THEN /\ workers' = [workers EXCEPT ![t].pc = "raised"]
                /\ UNCHANGED provider_stats
           ELSE LET n == old.num * (total - 1) + w.elapsed * old.den
                    d == old.den * total
                    g == Gcd(n, d)
                IN  /\ provider_stats' = [provider_stats EXCEPT ![w.name] =
                           [old EXCEPT !.num = n \div g, !.den = d \div g]]
                    /\ workers' = [workers EXCEPT ![t].pc =
                           IF w.success \/ w.chains = MaxConcChains
                           THEN "done" ELSE "run"]
    /\ UNCHANGED concframe

(***************************************************************************)
(* provider.py: get_provider_stats (lines 131-140).  success_rate is the   *)
(* rational <<numerator, denominator>> in lowest terms.                    *)
(***************************************************************************)
\* faulty variant: the rate is taken over the failures
SuccessRate_PerFailure(successes, failures) ==
    LET total == IF failures >= 1 THEN failures ELSE 1
        g == Gcd(successes, total)
    IN  <<successes \div g, total \div g>>

SuccessRate(successes, failures) ==
    LET total == IF successes + failures >= 1 THEN successes + failures ELSE 1
        g == Gcd(successes, total)
    IN  <<successes \div g, total \div g>>

get_provider_stats ==
    [n \in {m \in Names : provider_stats[m].seen} |->
        [successes |-> provider_stats[n].successes,
         failures |-> provider_stats[n].failures,
         avg_time |-> <<provider_stats[n].num, provider_stats[n].den>>,
         success_rate |-> SuccessRate(provider_stats[n].successes,
                                      provider_stats[n].failures)]]

\* a caller reads the statistics between two calls
GetProviderStats ==
    /\ pc \in {"idle", "done"}
    /\ facade.pc = "idle"
    /\ facade.reports < MaxReports
    /\ facade' = [facade EXCEPT !.report = get_provider_stats, !.reports = @ + 1]
    /\ UNCHANGED <<registry, cfgvars, provider_stats, pc, args, framevars, result,
                   raised, clock, calls, call_limit, logvars, stats_at_start, history,
                   reg_trace, workers, cli, updates>>

(***************************************************************************)
(* provider.py: _add_error_context (lines 224-241).  The injected message  *)
(* lists one numbered line "i. error_type: error" per recent error.        *)
(***************************************************************************)
Message(role, content, lines) == [role |-> role, content |-> content, lines |-> lines]

RecentErrors(local, global) == LastN(local \o global, 3)

AddErrorContext(original_messages, local, global) ==
    LET recent == RecentErrors(local, global)
    IN  IF recent = <<>> THEN original_messages
        ELSE Append(original_messages,
                    Message("user", "error_context",
                            [i \in 1..Len(recent) |->
                                [n |-> i, error_type |-> recent[i].error_type,
                                 error |-> recent[i].error]]))

(***************************************************************************)
(* provider.py: call (lines 63-129)                                        *)
(***************************************************************************)
Prompts == {NoText, "p"}
\* messages=None is <<>> with has_messages = FALSE
MessageLists == {<<Message("user", "m1", <<>>), Message("assistant", "m2", <<>>)>>}
Overrides == {NoName} \cup Names

\* one entry of history: the registered candidates of the call in order, the
\* number of adapter invocations, the backend that answered, the exception
CallSummary ==
    [candidates |-> SelectSeq(providers_to_try, LAMBDA n : n \in registered),
     invocations |-> Len(invocations),
     winner |-> IF raised = "" /\ result.success THEN providers_to_try[idx] ELSE NoName,
     raised |-> raised]

\* lines 96-100
ProvidersToTry(primary, fallbacks) == <<primary>> \o Without(fallbacks, primary)

\* faulty variant: the per-call override is ignored
EffectivePrimary_Configured(override, configured) == configured

EffectivePrimary(override, configured) ==
    IF override # NoName THEN override ELSE configured

\* faulty variant: the check looks for an empty prompt instead of a missing one
MissingInput_EmptyPrompt(prompt, has_messages) == ~has_messages /\ prompt = ""

\* lines 87-88: neither a prompt nor messages
MissingInput(prompt, has_messages) == ~has_messages /\ prompt = NoText

\* faulty variant: a prompt, when given, replaces the messages
NormalizeMessages_PromptWins(prompt, has_messages, msgs) ==
    IF prompt # NoText THEN <<Message("user", prompt, <<>>)>> ELSE msgs

\* lines 90-91: messages wins; a bare prompt is wrapped into one user message
NormalizeMessages(prompt, has_messages, msgs) ==
    IF has_messages THEN msgs ELSE <<Message("user", prompt, <<>>)>>

\* faulty variant: the override becomes the configured primary
PrimaryAfterCall_Sticky(override, configured) ==
    IF override # NoName THEN override ELSE configured

\* line 96: the override is bound to a local; self.primary_provider is not assigned
PrimaryAfterCall(override, configured) == configured

\* lines 87-102: validate, wrap the prompt, build the provider order
StartCall(prompt, has_messages, msgs, provider) ==
    /\ pc \in {"idle", "done"}
    /\ calls < call_limit
    /\ calls' = calls + 1
    /\ args' = [prompt |-> prompt, has_messages |-> has_messages,
                messages |-> msgs, provider |-> provider]
    /\ stats_at_start' = provider_stats
    /\ clock' = 0
    /\ invocations' = <<>>
    /\ resolutions' = <<>>
    /\ sleeps' = <<>>
    /\ last_slept' = 0
    /\ result' = NoResult
    /\ error_history' = <<>>
    /\ idx' = 1
    /\ adapter' = NoCtor
    /\ wait_time' = 0
    /\ local_errors' = <<>>
    /\ attempt' = 0
    /\ IF MissingInput(prompt, has_messages)
       THEN /\ raised' = "ValueError"
            /\ pc' = "done"
            /\ messages' = <<>>
            /\ providers_to_try' = <<>>
            /\ registered' = {}
       ELSE /\ raised' = ""
            /\ pc' = "select"
            /\ messages' = NormalizeMessages(prompt, has_messages, msgs)
            /\ providers_to_try' =
                   ProvidersToTry(EffectivePrimary(provider, primary_provider),
                                  fallback_providers)
            /\ registered' = list_adapters
    /\ reg_trace' = <<>>
    /\ history' = IF pc' = "done" THEN Append(history, CallSummary') ELSE history
    /\ primary_provider' = PrimaryAfterCall(provider, primary_provider)
    /\ UNCHANGED <<registry, fallback_providers, max_retries, initial_wait, max_wait,
                   provider_stats, call_limit, workers, cli, updates, facade>>

\* faulty variant: a name that is not registered counts as a failed backend
SkipUnregistered_AsFailure ==
    /\ pc = "select"
    /\ idx <= Len(providers_to_try)
    /\ providers_to_try[idx] \notin registered
    /\ error_history' = Append(error_history,
           ErrorRecord(providers_to_try[idx], 0,
                       ErrText(providers_to_try[idx], 0, clock), "ValueError", clock))
    /\ provider_stats' = UpdateStats(provider_stats, providers_to_try[idx], FALSE, clock)
    /\ idx' = idx + 1
    /\ UNCHANGED <<registry, cfgvars, pc, args, messages, providers_to_try, registered,
                   adapter, wait_time, local_errors, attempt, result, raised, clock,
                   calls, call_limit, logvars, stats_at_start, history, reg_trace, workers, cli, updates, facade>>

\* lines 104-106: a name that is not registered is skipped
SkipUnregistered ==
    /\ pc = "select"
    /\ idx <= Len(providers_to_try)
    /\ providers_to_try[idx] \notin registered
    /\ idx' = idx + 1
    /\ UNCHANGED <<registry, cfgvars, provider_stats, pc, args, messages,
                   error_history, providers_to_try, registered, adapter, wait_time,
                   local_errors, attempt, result, raised, clock, calls, call_limit, logvars,
                   stats_at_start, history, reg_trace, workers, cli, updates, facade>>

\* lines 108-110: enter _try_provider for a registered name
EnterProvider ==
    /\ pc = "select"
    /\ idx <= Len(providers_to_try)
    /\ providers_to_try[idx] \in registered
    /\ pc' = "resolve"
    /\ UNCHANGED <<registry, cfgvars, provider_stats, args, framevars, result,
                   raised, clock, calls, call_limit, logvars, stats_at_start,
                   history, reg_trace, workers, cli, updates, facade>>

\* faulty variant: "all_failed" is returned once the first candidate is behind
AllFailed_Early ==
    /\ pc = "select"
    /\ idx > 1
    /\ result' = LLMResponse("", FALSE, "all_failed", Len(error_history), clock,
                             error_history, FALSE)
    /\ pc' = "done"
    /\ UNCHANGED <<registry, cfgvars, provider_stats, args, framevars, raised,
                   clock, calls, call_limit, logvars, stats_at_start, reg_trace, workers, cli, updates, facade>>
    /\ history' = Append(history, CallSummary')

\* lines 121-129: the loop is over and nothing succeeded
AllFailed ==
    /\ pc = "select"
    /\ idx > Len(providers_to_try)
    /\ result' = LLMResponse("", FALSE, "all_failed", Len(error_history), clock,
                             error_history, FALSE)
    /\ pc' = "done"
    /\ UNCHANGED <<registry, cfgvars, provider_stats, args, framevars, raised,
                   clock, calls, call_limit, logvars, stats_at_start, reg_trace, workers, cli, updates, facade>>
    /\ history' = Append(history, CallSummary')

\* faulty variant: the records of a failed chain replace those of earlier chains
ProviderFailed_Overwrite(res, now) ==
    /\ error_history' = res.error_history
    /\ provider_stats' = UpdateStats(provider_stats, providers_to_try[idx], FALSE, now)
    /\ idx' = idx + 1
    /\ pc' = "select"

\* faulty variant: after a failed chain the loop stays at the same candidate
ProviderFailed_Stay(res, now) ==
    /\ error_history' = error_history \o res.error_history
    /\ provider_stats' = UpdateStats(provider_stats, providers_to_try[idx], FALSE, now)
    /\ idx' = idx
    /\ pc' = "select"

\* faulty variant: a failed chain leaves the statistics alone
ProviderFailed_NoStats(res, now) ==
    /\ error_history' = error_history \o res.error_history
    /\ provider_stats' = provider_stats
    /\ idx' = idx + 1
    /\ pc' = "select"

\* lines 118-119 and the loop's step: _try_provider returned the failed
\* response res
ProviderFailed(res, now) ==
    /\ error_history' = error_history \o res.error_history
    /\ provider_stats' = UpdateStats(provider_stats, providers_to_try[idx], FALSE, now)
    /\ idx' = idx + 1
    /\ pc' = "select"

\* faulty variant: the loop over the candidates goes on after a success
ProviderSucceeded_GoesOn(res, now) ==
    /\ result' = [res EXCEPT !.total_time = now]
    /\ provider_stats' = UpdateStats(provider_stats, providers_to_try[idx], TRUE, now)
    /\ pc' = "select"

\* lines 112-116: _try_provider returned the successful response res
ProviderSucceeded(res, now) ==
    /\ result' = [res EXCEPT !.total_time = now]
    /\ provider_stats' = UpdateStats(provider_stats, providers_to_try[idx], TRUE, now)
    /\ pc' = "done"

\* an exception leaves call(): nothing is returned
Propagate(exc_type) ==
    /\ raised' = exc_type
    /\ pc' = "done"

(***************************************************************************)
(* provider.py: _try_provider (lines 144-222)                              *)
(***************************************************************************)
\* the exception types constructors and adapters raise
ExcTypes == {"ValueError", "TypeError", "RuntimeError"}

\* faulty variant: only ValueError is caught
Caught_OnlyValueError(exc_type) == exc_type = "ValueError"

\* lines 155 and 200: "except Exception" catches every one of them
Caught(exc_type) == exc_type \in ExcTypes

\* faulty variant: a failed resolution is recorded as the first attempt
ResolveFailedResult_AttemptOne(name, exc_type, now) ==
    LLMResponse("", FALSE, name, 1, 0,
                <<ErrorRecord(name, 1, ErrText(name, 0, now), exc_type, now)>>, FALSE)

\* lines 156-168: the response for a failed resolution
ResolveFailedResult(name, exc_type, now) ==
    LLMResponse("", FALSE, name, 1, 0,
                <<ErrorRecord(name, 0, ErrText(name, 0, now), exc_type, now)>>, FALSE)

\* faulty variant: the wait of the previous backend carries over
StartWait_CarryOver == IF wait_time = 0 THEN initial_wait ELSE wait_time

\* line 170: every backend starts its backoff from initial_wait
StartWait == initial_wait

\* lines 153-171: get_adapter returns an instance, or raises
Resolve(ctor_ok) ==
    /\ pc = "resolve"
    /\ LET name == providers_to_try[idx]
           ctor == get_adapter(name)
           now == clock + 1
           exc_type == IF ctor = "unknown" THEN "ValueError" ELSE "TypeError"
       IN  /\ clock' = now
           /\ resolutions' = Append(resolutions,
                  [provider |-> name, pos |-> idx, at |-> now, ctor |-> ctor,
                   ok |-> (ctor # "unknown" /\ ctor_ok)])
           /\ IF ctor = "unknown" \/ ~ctor_ok
              THEN IF Caught(exc_type)
                   THEN /\ ProviderFailed(ResolveFailedResult(name, exc_type, now), now)
                        /\ UNCHANGED <<adapter, wait_time, local_errors, attempt, raised>>
                   ELSE /\ Propagate(exc_type)
                        /\ UNCHANGED <<adapter, wait_time, local_errors, attempt,
                                       error_history, provider_stats, idx>>
              ELSE /\ adapter' = ctor
                   /\ wait_time' = StartWait
                   /\ local_errors' = <<>>
                   /\ attempt' = 0
                   /\ pc' = "attempt"
                   /\ UNCHANGED <<error_history, provider_stats, idx, raised>>
    /\ UNCHANGED <<registry, cfgvars, args, messages, providers_to_try, registered,
                   result, calls, call_limit, invocations, sleeps, last_slept,
                   stats_at_start, reg_trace, workers, cli, facade>>
    /\ history' = IF pc' = "done" THEN Append(history, CallSummary') ELSE history
    /\ updates' = IF pc' = "select"
                  THEN Append(updates, StatsUpdate(providers_to_try[idx], FALSE, clock'))
                  ELSE updates

\* faulty variant: the error context is injected whenever there are errors
EffectiveMessages_AlwaysInject ==
    AddErrorContext(messages, local_errors, error_history)

\* lines 176-180
EffectiveMessages ==
    IF attempt > 0 THEN AddErrorContext(messages, local_errors, error_history)
    ELSE messages

\* faulty variant: the error context is appended to the list itself
MessagesAfterInject_InPlace(original_messages, effective_messages) ==
    effective_messages

\* line 241: "original_messages + [...]" builds a new list; the list the
\* caller passed in, which messages refers to, stays as it was
MessagesAfterInject(original_messages, effective_messages) == original_messages

\* line 195: (result.error_history or [{}])[-1].get("error", "unknown")
LastErrorText(res) ==
    IF res.error_history = <<>> THEN ErrText("unknown", 0, 0)
    ELSE res.error_history[Len(res.error_history)].error

\* lines 192-198 and 201-207: the record of a failed attempt
AttemptError(name, out, named, now) ==
    IF out = "raise"
    THEN ErrorRecord(name, attempt + 1, ErrText(name, attempt + 1, now),
                     "RuntimeError", now)
    ELSE ErrorRecord(name, attempt + 1,
                     LastErrorText(AdapterResponse(name, attempt + 1, now, out, named)),
                     "AdapterFailure", now)

\* faulty variant: the successful response carries the errors of earlier backends too
SuccessResult_WithGlobal(res) ==
    [res EXCEPT !.attempts = attempt + 1,
                !.error_history = error_history \o local_errors,
                !.eh_none = (error_history \o local_errors = <<>>)]

\* faulty variant: attempts is the zero-based loop index
SuccessResult_ZeroBased(res) ==
    [res EXCEPT !.attempts = attempt,
                !.error_history = local_errors,
                !.eh_none = (local_errors = <<>>)]

\* lines 186-189: what _try_provider returns for a successful adapter response
SuccessResult(res) ==
    [res EXCEPT !.attempts = attempt + 1,
                !.error_history = local_errors,
                !.eh_none = (local_errors = <<>>)]

\* lines 214-222: what _try_provider returns when the retries are used up
ExhaustedResult(name, errs) ==
    LLMResponse("", FALSE, name, max_retries, 0, errs, FALSE)

\* faulty variant: the retry loop makes one attempt too many
HasRetriesLeft_OneMore == attempt < max_retries

\* faulty variant: the retry loop gives up one attempt early
HasRetriesLeft_OneShort == attempt < max_retries - 2

\* lines 173 and 209: another pass of the loop follows this one
HasRetriesLeft == attempt < max_retries - 1

\* faulty variant: the name is looked up again on every attempt
AttemptAdapter_Lookup == get_adapter(providers_to_try[idx])

\* line 183: adapter.call(...) on the instance bound at line 154
AttemptAdapter == adapter

\* lines 173-209: one pass of the retry loop, up to the sleep
Attempt(out, named) ==
    /\ pc = "attempt"
    /\ LET name == providers_to_try[idx]
           now == clock + 1
       IN  /\ clock' = now
           /\ last_slept' = 0
           /\ invocations' = Append(invocations,
                  [provider |-> name, pos |-> idx, at |-> now, attempt |-> attempt,
                   messages |-> EffectiveMessages, outcome |-> out,
                   adapter |-> AttemptAdapter])
           /\ IF out = "ok"
              THEN /\ ProviderSucceeded(
                          SuccessResult(AdapterResponse(name, attempt + 1, now, out, named)),
                          now)
                   /\ UNCHANGED <<error_history, idx, local_errors, raised>>
              ELSE IF out = "raise" /\ ~Caught("RuntimeError")
              THEN /\ Propagate("RuntimeError")
                   /\ UNCHANGED <<error_history, provider_stats, idx, local_errors,
                                  result>>
              ELSE LET errs == Append(local_errors, AttemptError(name, out, named, now))
                   IN  /\ local_errors' = errs
                       /\ UNCHANGED <<result, raised>>
                       /\ IF HasRetriesLeft
                          THEN /\ pc' = "sleep"
                               /\ UNCHANGED <<error_history, provider_stats, idx>>
                          ELSE ProviderFailed(ExhaustedResult(name, errs), now)
    /\ messages' = MessagesAfterInject(messages, EffectiveMessages)
    /\ UNCHANGED <<registry, cfgvars, args, providers_to_try, registered,
                   adapter, wait_time, attempt, calls, call_limit, resolutions, sleeps,
                   stats_at_start, reg_trace, workers, cli, facade>>
    /\ history' = IF pc' = "done" THEN Append(history, CallSummary') ELSE history
    /\ updates' = IF pc' = "sleep" \/ raised' # ""
                  THEN updates
                  ELSE Append(updates,
                              StatsUpdate(providers_to_try[idx], out = "ok", clock'))

\* lines 209-212: the backoff sleep, then the next pass of the loop
NextWait(w) == Min(w * 2, max_wait)

Sleep(jitter_pct) ==
    /\ pc = "sleep"
    /\ LET jitter == (jitter_pct * wait_time) \div 100
       IN  last_slept' = wait_time + jitter
    /\ sleeps' = Append(sleeps, [provider |-> providers_to_try[idx], pos |-> idx,
                                 after |-> attempt, base |-> wait_time])
    /\ clock' = clock + 1
    /\ wait_time' = NextWait(wait_time)
    /\ attempt' = attempt + 1
    /\ pc' = "attempt"
    /\ UNCHANGED <<registry, cfgvars, provider_stats, args, messages, error_history,
                   providers_to_try, registered, idx, adapter, local_errors, result,
                   raised, calls, call_limit, invocations, resolutions, stats_at_start,
                   history, reg_trace, workers, cli, updates, facade>>

(***************************************************************************)
(* adapters/claude_cli.py: ClaudeCLIAdapter                                *)
(***************************************************************************)
CliTexts == {"", "hi", " hi\n"}

\* bytes.decode("utf-8", errors="replace").strip() on the outputs of the model
Strip(text) == IF text = " hi\n" THEN "hi" ELSE text

CliRuns ==
    {[kind |-> k, returncode |-> 0, stdout |-> "", stderr |-> ""] :
        k \in {"missing", "timeout", "denied"}}
    \cup
    [kind : {"exit"}, returncode : 0..2, stdout : CliTexts, stderr : {"", " hi\n"}]

CliPrompts == {"", "What is 2+2?"}
\* messages=None is <<>> with has_messages = FALSE
CliMessages == {<<>>, <<[role |-> "user", content |-> "hi"],
                        [role |-> "assistant", content |-> "yo"]>>}
CliSystems == {NoText, "", "be brief"}

\* lines 21-29
CliNew(cli_path, timeout, allowed_tools) ==
    /\ ~cli.made
    /\ cli' = [NoCli EXCEPT !.made = TRUE, !.cli_path = cli_path,
                            !.timeout = timeout, !.allowed_tools = allowed_tools]
    /\ UNCHANGED <<provider_stats, callframe, workers>>

\* line 47: "\n".join(f"{m['role']}: {m['content']}" for m in messages)
RECURSIVE JoinMessages(_)
JoinMessages(msgs) ==
    IF msgs = <<>> THEN ""
    ELSE LET line == msgs[1].role \o ": " \o msgs[1].content
         IN  IF Len(msgs) = 1 THEN line
             ELSE line \o "\n" \o JoinMessages(Tail(msgs))

\* lines 46-54: a non-empty messages list wins over the prompt; a non-empty
\* system text is put in front
FullPrompt(prompt, msgs, system) ==
    LET body == IF msgs # <<>> THEN JoinMessages(msgs) ELSE prompt
    IN  IF system # NoText /\ system # ""
        THEN "System: " \o system \o "\n\nUser: " \o body
        ELSE body

RECURSIVE JoinTools(_)
JoinTools(tools) ==
    IF tools = <<>> THEN ""
    ELSE IF Len(tools) = 1 THEN tools[1]
    ELSE tools[1] \o "," \o JoinTools(Tail(tools))

\* lines 57-59
CliCommand(full_prompt) ==
    <<cli.cli_path, "-p", full_prompt>> \o
    (IF cli.allowed_tools # <<>>
     THEN <<"--allowedTools", JoinTools(cli.allowed_tools)>> ELSE <<>>)

CliResponse(content, success, errs, none, input_tokens, output_tokens) ==
    [content |-> content, success |-> success, provider |-> "claude_cli",
     model |-> "claude-cli", input_tokens |-> input_tokens,
     output_tokens |-> output_tokens, attempts |-> 1,
     error_history |-> errs, eh_none |-> none]

CliError(what, code, text, type) ==
    [error |-> [what |-> what, code |-> code, text |-> text], error_type |-> type]

\* faulty variant: only the missing executable is caught
CliCaught_OnlyMissing(kind) == kind = "missing"

\* lines 67 and 79: FileNotFoundError and subprocess.TimeoutExpired are caught
CliCaught(kind) == kind \in {"missing", "timeout"}

Max(x, y) == IF x >= y THEN x ELSE y

\* lines 61-122: the response for the outcome run of subprocess.run
CliResult(full_prompt, run) ==
    IF run.kind = "missing"
    THEN CliResponse("", FALSE,
             <<CliError("not found", 0, cli.cli_path, "FileNotFoundError")>>, FALSE, 0, 0)
    ELSE IF run.kind = "timeout"
    THEN CliResponse("", FALSE,
             <<CliError("timed out", cli.timeout, "", "TimeoutError")>>, FALSE, 0, 0)
    ELSE IF run.returncode # 0
    THEN CliResponse("", FALSE,
             <<CliError("exit", run.returncode, Strip(run.stderr), "RuntimeError")>>,
             FALSE, 0, 0)
    ELSE LET content == Strip(run.stdout)
         IN  CliResponse(content, TRUE, <<>>, TRUE,
                         Max(1, Len(full_prompt) \div 4),
                         IF content # "" THEN Max(1, Len(content) \div 4) ELSE 0)

\* lines 31-122: call(); an exception of subprocess.run that is not caught
\* leaves it
CliCall(prompt, msgs, system, run) ==
    /\ cli.made
    /\ cli.calls < MaxCliCalls
    /\ LET full_prompt == FullPrompt(prompt, msgs, system)
           returns == run.kind = "exit" \/ CliCaught(run.kind)
       IN  cli' = [cli EXCEPT
                      !.calls = @ + 1,
                      !.run = run,
                      !.cmd = CliCommand(full_prompt),
                      !.response = IF returns THEN CliResult(full_prompt, run)
                                   ELSE <<>>,
                      !.raised = IF returns THEN ""
                                 ELSE IF run.kind = "missing" THEN "FileNotFoundError"
                                 ELSE IF run.kind = "timeout" THEN "TimeoutExpired"
                                 ELSE "PermissionError"]
    /\ UNCHANGED <<provider_stats, callframe, workers>>

(***************************************************************************)
(* dd_llm/__init__.py: call_llm (lines 47-67), on what the call() of the   *)
(* orchestrator returned or raised.                                        *)
(***************************************************************************)
UnknownError == ErrText("unknown error", 0, 0)

\* faulty variant: the message is the one of the oldest record
CallLlmLast_First(res) ==
    IF res.eh_none \/ res.error_history = <<>> THEN UnknownError
    ELSE res.error_history[1].error

\* lines 62-63: errors = response.error_history or []; the last error text
CallLlmLast(res) ==
    IF res.eh_none \/ res.error_history = <<>> THEN UnknownError
    ELSE res.error_history[Len(res.error_history)].error

\* faulty variant: a failed response is handed back as its (empty) content
call_llm_NoRaise ==
    IF raised # ""
    THEN [raised |-> raised, value |-> NoText, attempts |-> 0, last |-> UnknownError]
    ELSE [raised |-> "", value |-> result.content, attempts |-> 0,
          last |-> UnknownError]

\* what call_llm does: raised is the exception type ("" when it returns),
\* value the returned text, attempts and last the parts of the message
call_llm ==
    IF raised # ""
    THEN [raised |-> raised, value |-> NoText, attempts |-> 0, last |-> UnknownError]
    ELSE IF ~result.success
    THEN [raised |-> "RuntimeError", value |-> NoText,
          attempts |-> result.attempts, last |-> CallLlmLast(result)]
    ELSE [raised |-> "", value |-> result.content, attempts |-> 0,
          last |-> UnknownError]

(***************************************************************************)
(* dd_llm/__init__.py: the lazy singleton (lines 37-44) and the two        *)
(* functions that go through it.  The orchestrator variables describe the  *)
(* instance _global_llm refers to; constructing an instance gives it an    *)
(* empty statistics table (provider.py line 59) and the configuration the  *)
(* environment yields.  Instances are numbered in the order they are made. *)
(***************************************************************************)
\* faulty variant: every use constructs an orchestrator of its own
GetLlm_AlwaysNew(f) == [f EXCEPT !.instance = f.made + 1, !.made = @ + 1]

\* lines 40-44: _get_llm()
GetLlm(f) ==
    IF f.instance = 0 THEN [f EXCEPT !.instance = f.made + 1, !.made = @ + 1]
    ELSE f

\* the statistics table of the instance _get_llm() returned
LlmStats(f) ==
    IF GetLlm(f).made # f.made THEN [n \in Names |-> NoStats] ELSE provider_stats

\* line 60: call_llm evaluates _get_llm()
CallLlmEnter ==
    /\ facade.pc = "idle"
    /\ pc \in {"idle", "done"}
    /\ calls < call_limit
    /\ facade' = [GetLlm(facade) EXCEPT !.pc = "call", !.base = calls,
                                         !.used = Append(@, GetLlm(facade).instance)]
    /\ provider_stats' = LlmStats(facade)
    /\ UNCHANGED <<registry, cfgvars, pc, args, framevars, result, raised, clock,
                   calls, call_limit, logvars, stats_at_start, history, reg_trace,
                   workers, cli, updates>>

\* line 60: .call(prompt, messages=messages, provider=provider) on that instance
CallLlmCall ==
    /\ facade.pc = "call"
    /\ calls = facade.base
    /\ \E p \in Prompts, m \in MessageLists, o \in Overrides :
           \/ StartCall(p, FALSE, <<>>, o)
           \/ StartCall(p, TRUE, m, o)

\* lines 61-67: call_llm returns the content or raises
CallLlmReturn ==
    /\ facade.pc = "call"
    /\ calls = facade.base + 1
    /\ pc = "done"
    /\ facade' = [facade EXCEPT !.pc = "idle",
                                !.returned = Append(@, [raised |-> call_llm.raised,
                                                        value |-> call_llm.value])]
    /\ UNCHANGED <<registry, cfgvars, provider_stats, pc, args, framevars, result,
                   raised, clock, calls, call_limit, logvars, stats_at_start, history,
                   reg_trace, workers, cli, updates>>

\* lines 70-72: get_llm_stats
GetLlmStats ==
    /\ facade.pc = "idle"
    /\ pc \in {"idle", "done"}
    /\ facade.reports < MaxReports
    /\ provider_stats' = LlmStats(facade)
    /\ facade' = [GetLlm(facade) EXCEPT
                     !.report = IF GetLlm(facade).made # facade.made
                                THEN [n \in {} |-> 0]
                                ELSE get_provider_stats,
                     !.reports = @ + 1]
    /\ UNCHANGED <<registry, cfgvars, pc, args, framevars, result, raised, clock,
                   calls, call_limit, logvars, stats_at_start, history, reg_trace,
                   workers, cli, updates>>

(***************************************************************************)
(* The state after construction (provider.py lines 34-59).                 *)
(***************************************************************************)
FallbackLists == SeqsUpTo(Names, MaxFallbacks)

InitWith(primaries, fallbacks, retries, waits, budget) ==
    /\ registry = [n \in Names |-> NoCtor]
    /\ primary_provider \in primaries
    /\ fallback_providers \in fallbacks
    /\ max_retries \in retries
    /\ \E w \in waits : initial_wait = w[1] /\ max_wait = w[2]
    /\ provider_stats = [n \in Names |-> NoStats]
    /\ pc = "idle"
    /\ args = [prompt |-> NoText, has_messages |-> FALSE, messages |-> <<>>,
               provider |-> NoName]
    /\ messages = <<>>
    /\ error_history = <<>>
    /\ providers_to_try = <<>>
    /\ registered = {}
    /\ idx = 1
    /\ adapter = NoCtor
    /\ wait_time = 0
    /\ local_errors = <<>>
    /\ attempt = 0
    /\ result = NoResult
    /\ raised = ""
    /\ clock = 0
    /\ calls = 0
    /\ call_limit = budget
    /\ invocations = <<>>
    /\ resolutions = <<>>
    /\ sleeps = <<>>
    /\ last_slept = 0
    /\ stats_at_start = [n \in Names |-> NoStats]
    /\ history = <<>>
    /\ reg_trace = <<>>
    /\ workers = [t \in Threads |-> IdleWorker]
    /\ cli = NoCli
    /\ updates = <<>>
    /\ facade = NoFacade

Init == InitWith({"a"}, FallbackLists, 1..MaxRetries, Waits, MaxCalls)

CallStep ==
    \/ \E p \in Prompts, m \in MessageLists, o \in Overrides :
           \/ StartCall(p, FALSE, <<>>, o)
           \/ StartCall(p, TRUE, m, o)
    \/ SkipUnregistered
    \/ EnterProvider
    \/ AllFailed
    \/ \E ok \in BOOLEAN : Resolve(ok)
    \/ \E out \in Outcomes, named \in SelfNames : Attempt(out, named)
    \/ \E j \in JitterPct : Sleep(j)

Next ==
    \/ \E n \in Names, c \in Ctors : RegisterAdapter(n, c)
    \/ CallStep

Spec == Init /\ [][Next]_vars

\* several calls in a row on one orchestrator with at most one fallback
InitSeq == InitWith({"a"}, {<<>>, <<"b">>}, 1..MaxRetries, Waits, MaxSeqCalls)

SpecSeq == InitSeq /\ [][Next]_vars

\* one backend chain with several retries, under several backoff settings
InitBackoff ==
    InitWith({"a"}, {<<>>, <<"b">>}, 1..MaxBackoffRetries, BackoffWaits, MaxCalls)

SpecBackoff == InitBackoff /\ [][Next]_vars

\* the call as the program runs it: a call that has begun keeps taking steps
RunStep ==
    \/ SkipUnregistered
    \/ EnterProvider
    \/ AllFailed
    \/ \E ok \in BOOLEAN : Resolve(ok)
    \/ \E out \in Outcomes, named \in SelfNames : Attempt(out, named)
    \/ \E j \in JitterPct : Sleep(j)

SpecLive == Init /\ [][Next]_vars /\ WF_vars(RunStep)

\* several threads on one orchestrator
InitConc == InitWith({"a"}, {<<"b">>}, {1}, Waits, MaxCalls)

NextConc ==
    \E t \in Threads :
        \/ \E n \in ConcNames, ok \in BOOLEAN : ConcChainEnds(t, n, ok, 1)
        \/ ConcCheck(t)
        \/ ConcCreate(t)
        \/ ConcLoad(t)
        \/ ConcStore(t)
        \/ ConcAvg(t)

SpecConc == InitConc /\ [][NextConc]_vars

\* the ClaudeCLIAdapter used on its own
InitCli == InitWith({"a"}, {<<>>}, {1}, Waits, MaxCalls)

NextCli ==
    \/ \E t \in {10, 300}, tools \in {<<>>, <<"Bash", "Read">>} : CliNew("claude", t, tools)
    \/ \E p \in CliPrompts, m \in CliMessages, sy \in CliSystems, r \in CliRuns :
           CliCall(p, m, sy, r)

SpecCli == InitCli /\ [][NextCli]_vars

\* the registry used on its own, with two constructors
InitRegistry == InitWith({"a"}, {<<>>}, {1}, Waits, MaxCalls)

NextRegistry ==
    \/ \E n \in Names, c \in RegistryCtors : RegisterAdapter(n, c)
    \/ \E n \in Names, ok \in BOOLEAN : GetAdapter(n, ok)
    \/ ListAdapters

SpecRegistry == InitRegistry /\ [][NextRegistry]_vars

\* several calls in a row, the statistics read in between
InitStats == InitWith({"a"}, {<<"b">>}, 1..MaxRetries, Waits, MaxSeqCalls)

NextStats ==
    \/ Next
    \/ GetProviderStats

SpecStats == InitStats /\ [][NextStats]_vars

\* more calls in a row on one orchestrator, for the running mean
InitMean == InitWith({"a"}, {<<>>}, {2}, Waits, MaxMeanCalls)

SpecMean == InitMean /\ [][Next]_vars

\* the module's convenience functions, used one after another
InitFacade == InitWith({"a"}, {<<"b">>}, {MaxRetries}, Waits, MaxSeqCalls)

NextFacade ==
    \/ \E n \in ConcNames, c \in Ctors : RegisterAdapter(n, c)
    \/ CallLlmEnter
    \/ CallLlmCall
    \/ RunStep
    \/ CallLlmReturn
    \/ GetLlmStats

SpecFacade == InitFacade /\ [][NextFacade]_vars

\* a call while another thread registers and re-registers adapters
InitRereg == InitWith({"a"}, {<<"b">>}, {MaxRetries}, Waits, MaxCalls)

NextRereg ==
    \/ \E n \in ConcNames, c \in RegistryCtors : RegisterAdapter(n, c)
    \/ \E n \in ConcNames, c \in RegistryCtors : RegisterDuringCall(n, c)
    \/ CallStep

SpecRereg == InitRereg /\ [][NextRereg]_vars

(***************************************************************************)
(* Vocabulary of the properties.                                           *)
(***************************************************************************)
\* call() has returned a response
Returned == pc = "done" /\ raised = ""

\* the positions of providers_to_try whose name was in the registry when the
\* running call looked it up
RegisteredPositions ==
    {i \in 1..Len(providers_to_try) : providers_to_try[i] \in registered}

LastInvocation == invocations[Len(invocations)]

InvocationsOf(p) == SelectSeq(invocations, LAMBDA r : r.provider = p)

NoneSucceeded == \A i \in DOMAIN invocations : invocations[i].outcome # "ok"

\* the request as the caller gave it
OriginalMessages ==
    IF args.has_messages THEN args.messages
    ELSE <<[role |-> "user", content |-> args.prompt, lines |-> <<>>]>>

\* every failure of the running call, as (tick, text), from what the
\* constructors and adapters were seen to do
Failures ==
    {[at |-> invocations[i].at,
      pos |-> invocations[i].pos,
      text |-> ErrText(invocations[i].provider, invocations[i].attempt + 1,
                       invocations[i].at)] :
        i \in {j \in DOMAIN invocations : invocations[j].outcome # "ok"}}
    \cup
    {[at |-> resolutions[i].at,
      pos |-> resolutions[i].pos,
      text |-> ErrText(resolutions[i].provider, 0, resolutions[i].at)] :
        i \in {j \in DOMAIN resolutions : ~resolutions[j].ok}}

FailuresBefore(t) == {f \in Failures : f.at < t}

\* the n latest of a set of failures
Latest(fs, n) == {f \in fs : Cardinality({g \in fs : g.at > f.at}) < n}

(***************************************************************************)
(* C1: one registered candidate that fails every invocation, max_retries   *)
(* = N: call() returns success=false, provider "all_failed", attempts = N  *)
(* and exactly N error records, after exactly N invocations.               *)
(***************************************************************************)
C1_Case ==
    /\ Returned
    /\ Cardinality(RegisteredPositions) = 1
    /\ Len(resolutions) = 1
    /\ resolutions[1].ok
    /\ NoneSucceeded

C1_AllFailAlone ==
    C1_Case =>
        /\ ~result.success
        /\ result.provider = "all_failed"
        /\ result.attempts = max_retries
        /\ ~result.eh_none
        /\ Len(result.error_history) = max_retries
        /\ Len(invocations) = max_retries
        /\ \A i \in 1..Len(invocations) :
               invocations[i].provider = resolutions[1].provider

C1_Witness ==
    /\ C1_Case
    /\ max_retries = MaxRetries
    /\ Len(providers_to_try) > 1
    /\ invocations[1].outcome = "raise"
    /\ invocations[2].outcome = "fail"

(***************************************************************************)
(* C2: the primary fails all max_retries attempts and a registered         *)
(* fallback then succeeds: the returned response is successful and its     *)
(* error history holds the primary's failed-attempt records, ahead of any  *)
(* record of the fallback.                                                 *)
(***************************************************************************)
C2_Case ==
    /\ Returned
    /\ Len(invocations) > max_retries
    /\ \A i \in 1..max_retries :
           invocations[i].pos = 1 /\ invocations[i].outcome # "ok"
    /\ LastInvocation.outcome = "ok"

C2_PrimaryErrorsKept ==
    C2_Case =>
        /\ result.success
        /\ Len(result.error_history) >= max_retries
        /\ \A i \in 1..max_retries :
               /\ result.error_history[i].provider = providers_to_try[1]
               /\ result.error_history[i].attempt = i

(***************************************************************************)
(* C3: a backend that fails its first k invocations (0 < k < max_retries)  *)
(* and succeeds on invocation k+1: call() returns success=true, attempts   *)
(* = k+1 and an error list of exactly k entries, all of that backend.      *)
(***************************************************************************)
C3_Case ==
    /\ Returned
    /\ invocations # <<>>
    /\ LastInvocation.outcome = "ok"
    /\ Len(InvocationsOf(LastInvocation.provider)) > 1
    /\ Len(InvocationsOf(LastInvocation.provider)) <= max_retries

C3_RetryThenSuccess ==
    C3_Case =>
        LET p == LastInvocation.provider
            k == Len(InvocationsOf(p)) - 1
        IN  /\ result.success
            /\ result.attempts = k + 1
            /\ ~result.eh_none
            /\ Len(result.error_history) = k
            /\ \A i \in 1..Len(result.error_history) :
                   /\ result.error_history[i].provider = p
                   /\ result.error_history[i].attempt = i

C3_Witness ==
    /\ C3_Case
    /\ LastInvocation.pos = 3
    /\ Len(error_history) = 2 * MaxRetries
    /\ result.attempts = MaxRetries

(***************************************************************************)
(* C4: the first registered candidate succeeds on its first invocation:    *)
(* call() returns success=true with attempts = 1, the backend was invoked  *)
(* exactly once and nothing slept.                                         *)
(***************************************************************************)
C4_Case ==
    /\ Returned
    /\ invocations # <<>>
    /\ invocations[1].outcome = "ok"
    /\ \A i \in RegisteredPositions : invocations[1].pos <= i

C4_FirstTrySuccess ==
    C4_Case =>
        /\ result.success
        /\ result.attempts = 1
        /\ Len(invocations) = 1
        /\ sleeps = <<>>
        /\ last_slept = 0

C4_Witness ==
    /\ C4_Case
    /\ invocations[1].pos = 2
    /\ max_retries = MaxRetries

(***************************************************************************)
(* C5: with a prompt or messages supplied, call() never raises and what it *)
(* returns is a well-formed response, whatever the constructors and the    *)
(* adapters do.                                                            *)
(***************************************************************************)
WellFormed(r) ==
    /\ r.success \in BOOLEAN
    /\ r.content # NoText
    /\ r.attempts \in Nat
    /\ r.total_time \in Nat
    /\ r.provider \in Names \cup (SelfNames \ {"self"}) \cup {"all_failed"}
    /\ r.success => r.provider # "all_failed" /\ r.attempts >= 1
    /\ ~r.success => r.provider = "all_failed" /\ ~r.eh_none

C5_NeverRaises ==
    (calls > 0 /\ (args.has_messages \/ args.prompt # NoText)) =>
        /\ raised = ""
        /\ pc = "done" => WellFormed(result)

C5_Witness ==
    /\ Returned
    /\ result.success
    /\ \E i \in DOMAIN resolutions : ~resolutions[i].ok
    /\ \E i \in DOMAIN invocations : invocations[i].outcome = "raise"
    /\ \E i \in DOMAIN invocations : invocations[i].outcome = "fail"

(***************************************************************************)
(* C6: a call with neither prompt nor messages fails with ValueError       *)
(* before any resolution or invocation, and leaves the statistics table    *)
(* as it was.                                                              *)
(***************************************************************************)
C6_Case == calls > 0 /\ ~args.has_messages /\ args.prompt = NoText

C6_MissingInputRejected ==
    C6_Case =>
        /\ pc = "done"
        /\ raised = "ValueError"
        /\ result = NoResult
        /\ resolutions = <<>>
        /\ invocations = <<>>
        /\ sleeps = <<>>
        /\ provider_stats = stats_at_start

C6_Witness ==
    /\ C6_Case
    /\ calls = MaxSeqCalls
    /\ provider_stats["a"].failures = 1
    /\ provider_stats["b"].successes = 1

(***************************************************************************)
(* C7 as claimed: a call that supplies both a prompt and messages fails    *)
(* with a configuration error before touching any backend.                 *)
(***************************************************************************)
C7_Case == calls > 0 /\ args.has_messages /\ args.prompt # NoText

C7_BothRejected ==
    C7_Case =>
        /\ raised = "ValueError"
        /\ resolutions = <<>>
        /\ invocations = <<>>

(***************************************************************************)
(* C7 amended: a call that supplies both a prompt and messages does not    *)
(* fail: the prompt is ignored and every request is built from the         *)
(* messages alone; the configuration error is raised exactly when neither  *)
(* is supplied.                                                            *)
(***************************************************************************)
C7_BothUsesMessages ==
    /\ calls > 0 =>
           (raised = "ValueError" <=> (~args.has_messages /\ args.prompt = NoText))
    /\ C7_Case =>
           /\ raised = ""
           /\ messages = args.messages
           /\ \A i \in DOMAIN invocations :
                  /\ SubSeq(invocations[i].messages, 1, Len(args.messages))
                         = args.messages
                  /\ \A j \in DOMAIN invocations[i].messages :
                         invocations[i].messages[j].content # args.prompt

C7_Witness ==
    /\ C7_Case
    /\ Returned
    /\ result.success
    /\ Len(invocations) > 1

(***************************************************************************)
(* C8: the candidates are the effective primary (the per-call override if  *)
(* given, else the configured primary) followed by the configured          *)
(* fallbacks other than it, in their order; a candidate is invoked only    *)
(* after every earlier registered candidate ended its attempt chain        *)
(* without success.                                                        *)
(***************************************************************************)
C8_Order ==
    LET eff == IF args.provider # NoName THEN args.provider ELSE primary_provider
    IN  <<eff>> \o SelectSeq(fallback_providers, LAMBDA p : p # eff)

\* the chain at position j ended without success before tick t
C8_ChainFailedBefore(j, t) ==
    /\ \A i \in DOMAIN invocations :
           invocations[i].pos = j =>
               invocations[i].outcome # "ok" /\ invocations[i].at < t
    /\ \/ \E i \in DOMAIN resolutions :
              /\ resolutions[i].pos = j
              /\ ~resolutions[i].ok
              /\ resolutions[i].at < t
       \/ Cardinality({i \in DOMAIN invocations : invocations[i].pos = j})
              = max_retries

C8_CandidateOrder ==
    (pc # "idle" /\ raised = "") =>
        /\ providers_to_try = C8_Order
        /\ \A i \in DOMAIN invocations :
               LET r == invocations[i]
               IN  /\ r.provider = C8_Order[r.pos]
                   /\ r.pos \in RegisteredPositions
                   /\ \A k \in 1..(i - 1) : invocations[k].pos <= r.pos
                   /\ \A j \in RegisteredPositions :
                          j < r.pos => C8_ChainFailedBefore(j, r.at)

C8_Witness ==
    /\ Returned
    /\ primary_provider = "a"
    /\ args.provider = "c"
    /\ fallback_providers = <<"b", "c">>
    /\ invocations # <<>>
    /\ LastInvocation.provider = "b"
    /\ LastInvocation.outcome = "ok"
    /\ \E i \in DOMAIN resolutions : resolutions[i].provider = "c"

(***************************************************************************)
(* C9: on attempt index 0 of every backend the request is the original     *)
(* message list; on every attempt index > 0 it is the original list plus   *)
(* exactly one message, which lists at least 1 and at most 3 errors.       *)
(***************************************************************************)
C9_ErrorContext ==
    \A i \in DOMAIN invocations :
        LET r == invocations[i]
            n == Len(OriginalMessages)
        IN  /\ r.attempt = 0 => r.messages = OriginalMessages
            /\ r.attempt > 0 =>
                   /\ Len(r.messages) = n + 1
                   /\ SubSeq(r.messages, 1, n) = OriginalMessages
                   /\ r.messages[n + 1].role = "user"
                   /\ r.messages[n + 1].content = "error_context"
                   /\ Len(r.messages[n + 1].lines) \in 1..3

C9_Witness ==
    /\ \E i \in DOMAIN invocations :
           /\ invocations[i].pos > 1
           /\ invocations[i].attempt = 0
           /\ FailuresBefore(invocations[i].at) # {}
    /\ \E i \in DOMAIN invocations :
           /\ invocations[i].attempt > 0
           /\ Cardinality(FailuresBefore(invocations[i].at)) > 3
           /\ Len(invocations[i].messages[Len(invocations[i].messages)].lines) = 3

(***************************************************************************)
(* C10: the errors listed in the message injected on a retry are the (up   *)
(* to 3) most recent failures of the call so far; the current backend's    *)
(* own failures are among them and are listed ahead of those carried over  *)
(* from earlier backends.                                                  *)
(***************************************************************************)
C10_Listed(r) ==
    LET lines == r.messages[Len(r.messages)].lines
    IN  {lines[i].error : i \in DOMAIN lines}

C10_MostRecentErrors ==
    \A i \in DOMAIN invocations :
        LET r == invocations[i]
            recent == Latest(FailuresBefore(r.at), 3)
            own == {f \in recent : f.pos = r.pos}
        IN  r.attempt > 0 =>
                /\ C10_Listed(r) = {f.text : f \in recent}
                /\ own # {}
                /\ \A f \in own : f.text \in C10_Listed(r)
                /\ LET lines == r.messages[Len(r.messages)].lines
                       mine == {f.text : f \in {g \in Failures : g.pos = r.pos}}
                   IN  \A a, b \in DOMAIN lines :
                           (lines[a].error \in mine /\ lines[b].error \notin mine)
                               => a < b

(***************************************************************************)
(* C11.  Backoff: the i-th wait of a backend has the base                  *)
(* min(initial_wait * 2^(i-1), max_wait), so no base exceeds max_wait, and *)
(* the sleep lasts the base times a factor in [1.0, 1.3).                  *)
(***************************************************************************)
C11_Base(i) == Min(initial_wait * 2^(i - 1), max_wait)

C11_Backoff ==
    /\ \A k \in 1..Len(sleeps) :
           /\ sleeps[k].base = C11_Base(sleeps[k].after + 1)
           /\ sleeps[k].base <= max_wait
    /\ last_slept # 0 =>
           LET base == sleeps[Len(sleeps)].base
           IN  /\ 100 * base <= 100 * last_slept
               /\ 100 * last_slept < 130 * base

(***************************************************************************)
(* C12.  After N calls in a row whose only registered candidate is one     *)
(* backend that answers its first invocation with success, the statistics  *)
(* report that backend alone, with successes = N, failures = 0 and         *)
(* success_rate = 1.                                                       *)
(***************************************************************************)
C12_Case(p) ==
    /\ pc = "done"
    /\ history # <<>>
    /\ Len(history) = calls
    /\ \A i \in 1..Len(history) :
           /\ history[i].candidates = <<p>>
           /\ history[i].invocations = 1
           /\ history[i].winner = p

C12_AlwaysSucceeds ==
    \A p \in Names :
        C12_Case(p) =>
            LET st == get_provider_stats
            IN  /\ DOMAIN st = {p}
                /\ st[p].successes = Len(history)
                /\ st[p].failures = 0
                /\ st[p].success_rate = <<1, 1>>

C12_Witness == C12_Case("a") /\ Len(history) = MaxSeqCalls

(***************************************************************************)
(* C13.  Within one call every chain of a registered candidate that has    *)
(* ended added exactly one to the successes + failures of its backend:     *)
(* one failure per abandoned chain, one success for the chain that         *)
(* answered; the statistics of every other backend are as they were when   *)
(* the call began.                                                         *)
(***************************************************************************)
C13_Abandoned(n) ==
    {j \in RegisteredPositions : j < idx /\ providers_to_try[j] = n}

C13_Answered(n) ==
    /\ pc = "done"
    /\ result.success
    /\ providers_to_try[idx] = n

C13_OnePerChain ==
    (pc # "idle" /\ raised = "") =>
        \A n \in Names :
            /\ provider_stats[n].failures =
                   stats_at_start[n].failures + Cardinality(C13_Abandoned(n))
            /\ provider_stats[n].successes =
                   stats_at_start[n].successes + (IF C13_Answered(n) THEN 1 ELSE 0)
            /\ (C13_Abandoned(n) = {} /\ ~C13_Answered(n)) =>
                   provider_stats[n] = stats_at_start[n]

C13_Witness ==
    /\ calls = 2
    /\ C13_Answered("b")
    /\ C13_Abandoned("a") = {1}
    /\ stats_at_start["a"].seen
    /\ stats_at_start["b"].seen
    /\ ~provider_stats["c"].seen

(***************************************************************************)
(* C14.  When no candidate answers, call() returns the all_failed          *)
(* response; its attempts is the number of failures of the whole call and  *)
(* its error history holds one record per failure, oldest first, none      *)
(* dropped.                                                                *)
(***************************************************************************)
C14_Case == Returned /\ NoneSucceeded

\* the record is the one of the i-th failure of the call
C14_IsFailure(r, i) ==
    \E f \in Failures :
        /\ f.at = r.timestamp
        /\ f.text = r.error
        /\ providers_to_try[f.pos] = r.provider
        /\ Cardinality(FailuresBefore(f.at)) = i - 1

C14_AllFailedHistory ==
    C14_Case =>
        /\ ~result.success
        /\ result.provider = "all_failed"
        /\ ~result.eh_none
        /\ result.attempts = Cardinality(Failures)
        /\ Len(result.error_history) = Cardinality(Failures)
        /\ \A i \in 1..Len(result.error_history) :
               C14_IsFailure(result.error_history[i], i)

C14_Witness ==
    /\ C14_Case
    /\ Cardinality(RegisteredPositions) = 3
    /\ ~resolutions[1].ok
    /\ Len(invocations) = 4
    /\ invocations[1].outcome = "fail"
    /\ invocations[2].outcome = "raise"
    /\ result.attempts = 5

(***************************************************************************)
(* C15.  A candidate whose name is not registered is skipped silently:     *)
(* the step past it raises nothing, records no error, touches no           *)
(* statistics, sleeps not and leaves the loop at the next candidate; the   *)
(* call holds no trace of that name.                                       *)
(***************************************************************************)
C15_AtUnregistered ==
    /\ pc = "select"
    /\ idx <= Len(providers_to_try)
    /\ providers_to_try[idx] \notin registered

C15_SilentStep ==
    C15_AtUnregistered =>
        /\ idx' = idx + 1
        /\ pc' = "select"
        /\ raised' = ""
        /\ error_history' = error_history
        /\ provider_stats' = provider_stats
        /\ result' = result
        /\ logvars' = logvars

C15_NoTrace ==
    (pc # "idle" /\ raised = "") =>
        \A j \in (1..Len(providers_to_try)) \ RegisteredPositions :
            LET n == providers_to_try[j]
            IN  /\ provider_stats[n] = stats_at_start[n]
                /\ \A i \in DOMAIN error_history : error_history[i].provider # n
                /\ \A i \in DOMAIN result.error_history :
                       result.error_history[i].provider # n
                /\ \A i \in DOMAIN resolutions : resolutions[i].provider # n
                /\ \A i \in DOMAIN invocations : invocations[i].provider # n
                /\ \A i \in DOMAIN sleeps : sleeps[i].provider # n

C15_SkippedSilently == [][C15_SilentStep]_vars /\ []C15_NoTrace

C15_Witness ==
    /\ Returned
    /\ result.success
    /\ RegisteredPositions = {1, 3}
    /\ idx = 3
    /\ Len(error_history) = max_retries
    /\ ~provider_stats[providers_to_try[2]].seen

(***************************************************************************)
(* C16.  When the resolution of a registered candidate fails, the call     *)
(* records exactly one error record for that chain, with attempt 0; the    *)
(* backend is not invoked, no sleep follows, and the loop moves on to the  *)
(* next candidate.                                                         *)
(***************************************************************************)
\* the records of error_history written between the resolution q and the next one
C16_RecordsOf(q) ==
    {i \in DOMAIN error_history :
        /\ error_history[i].timestamp >= q.at
        /\ \A k \in DOMAIN resolutions :
               resolutions[k].at > q.at => error_history[i].timestamp < resolutions[k].at}

C16_ResolutionFailure ==
    \A k \in DOMAIN resolutions :
        LET q == resolutions[k]
        IN  ~q.ok =>
                /\ raised = ""
                /\ idx > q.pos
                /\ \A i \in DOMAIN invocations : invocations[i].pos # q.pos
                /\ \A i \in DOMAIN sleeps : sleeps[i].pos # q.pos
                /\ \A i \in DOMAIN resolutions : resolutions[i].pos = q.pos => i = k
                /\ Cardinality(C16_RecordsOf(q)) = 1
                /\ \A i \in C16_RecordsOf(q) :
                       /\ error_history[i].attempt = 0
                       /\ error_history[i].provider = q.provider
                       /\ error_history[i].timestamp = q.at

C16_Witness ==
    /\ Returned
    /\ result.success
    /\ Len(resolutions) = 3
    /\ resolutions[1].ok
    /\ ~resolutions[2].ok
    /\ resolutions[3].ok
    /\ resolutions[3].pos = resolutions[2].pos + 1
    /\ Len(error_history) = max_retries + 1

(***************************************************************************)
(* C17.  Every failed invocation of a backend, raised or returned, uses    *)
(* up exactly one attempt: a chain is abandoned after exactly max_retries  *)
(* failed invocations, never earlier, and never holds more than            *)
(* max_retries invocations.                                                *)
(***************************************************************************)
C17_Chain(j) == SelectSeq(invocations, LAMBDA r : r.pos = j)

C17_Resolved(j) == \E k \in DOMAIN resolutions : resolutions[k].pos = j /\ resolutions[k].ok

C17_OneAttemptPerFailure ==
    \A j \in RegisteredPositions :
        LET chain == C17_Chain(j)
        IN  /\ Len(chain) <= max_retries
            /\ \A i \in 1..Len(chain) : chain[i].attempt = i - 1
            /\ \A i \in 1..(Len(chain) - 1) : chain[i].outcome # "ok"
            /\ (j < idx /\ C17_Resolved(j)) =>
                   /\ Len(chain) = max_retries
                   /\ \A i \in 1..Len(chain) : chain[i].outcome # "ok"
            /\ (j = idx /\ pc = "attempt") => attempt = Len(chain)
            /\ (j = idx /\ pc = "sleep") =>
                   /\ attempt + 1 = Len(chain)
                   /\ Len(chain) < max_retries

C17_Witness ==
    /\ max_retries = MaxBackoffRetries
    /\ idx = 2
    /\ C17_Resolved(1)
    /\ Len(C17_Chain(1)) = MaxBackoffRetries
    /\ invocations[1].outcome = "raise"
    /\ invocations[2].outcome = "fail"
    /\ invocations[3].outcome = "raise"

(***************************************************************************)
(* C18.  A call whose adapters return always ends, with a successful or    *)
(* an all_failed response, after at most candidates * max_retries adapter  *)
(* invocations and at most candidates * (max_retries - 1) sleeps.          *)
(***************************************************************************)
C18_Running == pc \in {"select", "resolve", "attempt", "sleep"}

C18_Bounded ==
    /\ Len(invocations) <= Len(providers_to_try) * max_retries
    /\ Len(sleeps) <= Len(providers_to_try) * (max_retries - 1)

C18_Ended ==
    /\ Returned
    /\ result.success \/ result.provider = "all_failed"

C18_Terminates == []C18_Bounded /\ (C18_Running ~> C18_Ended)

C18_Witness ==
    /\ C18_Ended
    /\ Len(providers_to_try) = 3
    /\ max_retries = MaxRetries
    /\ Len(invocations) = 3 * MaxRetries
    /\ Len(sleeps) = 3 * (MaxRetries - 1)

(***************************************************************************)
(* C19.  register_adapter never fails and the last registration of a name  *)
(* wins: get_adapter(name) calls the constructor registered most recently  *)
(* under the name; registering a pair that is already registered changes   *)
(* nothing, and a registration changes the entry of no other name.         *)
(***************************************************************************)
\* the registrations of name among the first n operations
C19_RegistrationsOf(name, n) ==
    {i \in 1..n : reg_trace[i].op = "register" /\ reg_trace[i].name = name}

\* the constructor registered most recently under name among the first n operations
C19_Latest(name, n) ==
    LET regs == C19_RegistrationsOf(name, n)
    IN  IF regs = {} THEN NoCtor
        ELSE reg_trace[CHOOSE i \in regs : \A k \in regs : k <= i].ctor

C19_LastWriteWins ==
    calls = 0 =>
        /\ \A n \in Names : registry[n] = C19_Latest(n, Len(reg_trace))
        /\ \A i \in DOMAIN reg_trace :
               LET e == reg_trace[i]
               IN  /\ e.op = "register" => e.raised = ""
                   /\ e.op = "get" =>
                          IF C19_Latest(e.name, i - 1) = NoCtor
                          THEN e.ctor = "unknown" /\ e.raised = "ValueError"
                          ELSE e.ctor = C19_Latest(e.name, i - 1)

C19_RegisterStep ==
    (calls = 0 /\ Len(reg_trace') = Len(reg_trace) + 1
               /\ reg_trace'[Len(reg_trace')].op = "register") =>
        LET e == reg_trace'[Len(reg_trace')]
        IN  /\ \A m \in Names \ {e.name} : registry'[m] = registry[m]
            /\ registry[e.name] = e.ctor => registry' = registry
            /\ registry'[e.name] = e.ctor

C19_Registry == []C19_LastWriteWins /\ [][C19_RegisterStep]_vars

C19_Witness ==
    /\ Len(reg_trace) = 4
    /\ reg_trace[1] = RegOp("register", "b", "K1", <<>>, "")
    /\ reg_trace[2] = RegOp("register", "a", "K1", <<>>, "")
    /\ reg_trace[3] = RegOp("register", "a", "K2", <<>>, "")
    /\ reg_trace[4] = RegOp("get", "a", "K2", <<>>, "")
    /\ registry["b"] = "K1"

(***************************************************************************)
(* C20.  list_adapters() returns the registered names, all of them and     *)
(* each once, in ascending order, whatever the order of the registrations; *)
(* two calls with no registration between them return the same sequence.   *)
(***************************************************************************)
\* the names registered by the operations before the i-th
C20_RegisteredBefore(i) ==
    {reg_trace[k].name : k \in {j \in 1..(i - 1) : reg_trace[j].op = "register"}}

C20_Ascending(names) ==
    \A k \in 1..(Len(names) - 1) : NameRank[names[k]] < NameRank[names[k + 1]]

C20_ListSorted ==
    calls = 0 =>
        \A i \in DOMAIN reg_trace :
            reg_trace[i].op = "list" =>
                LET names == reg_trace[i].names
                IN  /\ {names[k] : k \in DOMAIN names} = C20_RegisteredBefore(i)
                    /\ Len(names) = Cardinality(C20_RegisteredBefore(i))
                    /\ C20_Ascending(names)
                    /\ \A j \in 1..(i - 1) :
                           (/\ reg_trace[j].op = "list"
                            /\ \A k \in j..i : reg_trace[k].op # "register")
                               => reg_trace[j].names = names

C20_Witness ==
    /\ Len(reg_trace) = 4
    /\ reg_trace[1] = RegOp("register", "c", "K1", <<>>, "")
    /\ reg_trace[2] = RegOp("register", "a", "K2", <<>>, "")
    /\ reg_trace[3] = RegOp("list", NoName, NoCtor, <<"a", "c">>, "")
    /\ reg_trace[4] = reg_trace[3]

(***************************************************************************)
(* C21.  get_adapter of a name that is not registered fails with an error  *)
(* whose message lists the registered names, all of them, in ascending     *)
(* order; no constructor is called and the registry is left as it was.     *)
(***************************************************************************)
C21_RegisteredBefore(i) ==
    {reg_trace[k].name : k \in {j \in 1..(i - 1) : reg_trace[j].op = "register"}}

C21_UnknownLookups ==
    {i \in DOMAIN reg_trace :
        reg_trace[i].op = "get" /\ reg_trace[i].name \notin C21_RegisteredBefore(i)}

C21_Message ==
    calls = 0 =>
        \A i \in C21_UnknownLookups :
            LET e == reg_trace[i]
            IN  /\ e.raised = "ValueError"
                /\ e.ctor \notin RegistryCtors
                /\ {e.names[k] : k \in DOMAIN e.names} = C21_RegisteredBefore(i)
                /\ Len(e.names) = Cardinality(C21_RegisteredBefore(i))
                /\ \A k \in 1..(Len(e.names) - 1) :
                       NameRank[e.names[k]] < NameRank[e.names[k + 1]]

C21_LookupStep ==
    (calls = 0 /\ Len(reg_trace') = Len(reg_trace) + 1
               /\ reg_trace'[Len(reg_trace')].op = "get") => registry' = registry

C21_UnknownAdapter == []C21_Message /\ [][C21_LookupStep]_vars

C21_Witness ==
    /\ Len(reg_trace) = 3
    /\ reg_trace[1] = RegOp("register", "c", "K1", <<>>, "")
    /\ reg_trace[2] = RegOp("register", "a", "K2", <<>>, "")
    /\ reg_trace[3] = RegOp("get", "b", "unknown", <<"a", "c">>, "ValueError")
    /\ registry = [n \in Names |-> CASE n = "a" -> "K2" [] n = "b" -> NoCtor
                                        [] n = "c" -> "K1"]

(***************************************************************************)
(* C22.  Each backend name is tried at most once per call: the candidate   *)
(* order holds no name twice, also when the configured fallback list       *)
(* holds a name more than once.                                            *)
(***************************************************************************)
C22_NoNameTwice ==
    /\ \A i, j \in DOMAIN providers_to_try :
           i # j => providers_to_try[i] # providers_to_try[j]
    /\ \A i, j \in DOMAIN resolutions :
           i # j => resolutions[i].provider # resolutions[j].provider

(***************************************************************************)
(* C23.  A per-call override holds for that call only: no step of a call   *)
(* changes the configured primary, the fallback list, max_retries or the   *)
(* backoff settings, and a call made without an override starts from the   *)
(* configured primary, whatever the calls before it were given.            *)
(***************************************************************************)
C23_ConfigKept == cfgvars' = cfgvars

C23_FromConfigured ==
    (pc # "idle" /\ raised = "" /\ args.provider = NoName) =>
        /\ providers_to_try # <<>>
        /\ providers_to_try[1] = primary_provider
        /\ providers_to_try = ProvidersToTry(primary_provider, fallback_providers)

C23_OverrideThisCallOnly == [][C23_ConfigKept]_vars /\ []C23_FromConfigured

C23_Witness ==
    /\ Returned
    /\ calls = 2
    /\ history[1].winner = "c"
    /\ primary_provider = "a"
    /\ args.provider = NoName
    /\ invocations # <<>>
    /\ invocations[1].provider = "a"

(***************************************************************************)
(* C24.  On a successful call the provider of the returned response is     *)
(* the registry name of the candidate that answered, the name under which  *)
(* the success is counted in the statistics.                               *)
(***************************************************************************)
C24_ReportsCandidate ==
    (Returned /\ result.success) =>
        /\ result.provider = providers_to_try[idx]
        /\ provider_stats[result.provider].successes =
               stats_at_start[result.provider].successes + 1

(***************************************************************************)
(* C25.  call_llm returns the content of the response when the call of     *)
(* the orchestrator succeeded and raises RuntimeError when it returned a   *)
(* failed response; the error carries the text of the most recent failure  *)
(* of the call, or "unknown error" when the call recorded no failure.      *)
(***************************************************************************)
C25_MostRecent == {f \in Failures : \A g \in Failures : g.at <= f.at}

C25_CallLlm ==
    Returned =>
        /\ result.success =>
               /\ call_llm.raised = ""
               /\ call_llm.value = result.content
               /\ call_llm.value = "ok"
        /\ ~result.success =>
               /\ call_llm.raised = "RuntimeError"
               /\ Failures = {} => call_llm.last = UnknownError
               /\ \A f \in C25_MostRecent : call_llm.last = f.text

C25_Witness ==
    /\ Returned
    /\ ~result.success
    /\ Len(invocations) = 4
    /\ Cardinality(Failures) = 5
    /\ call_llm.last = ErrText(providers_to_try[3], MaxRetries, clock)

(***************************************************************************)
(* C26.  When several calls run at the same time on one orchestrator no    *)
(* statistics update is lost: once every call has returned, the            *)
(* successes + failures of each backend is the number of chains that       *)
(* ended on it over all calls, and its successes the number of calls it    *)
(* answered.                                                               *)
(***************************************************************************)
C26_AllReturned == \A t \in Threads : workers[t].pc = "done"

RECURSIVE C26_Sum(_, _, _)
C26_Sum(field, n, ts) ==
    IF ts = {} THEN 0
    ELSE LET t == CHOOSE u \in ts : TRUE
         IN  workers[t][field][n] + C26_Sum(field, n, ts \ {t})

C26_NoLostUpdate ==
    C26_AllReturned =>
        \A n \in ConcNames :
            /\ provider_stats[n].successes + provider_stats[n].failures =
                   C26_Sum("ended", n, Threads)
            /\ provider_stats[n].successes = C26_Sum("answered", n, Threads)

(***************************************************************************)
(* C27.  ClaudeCLIAdapter.call returns a response and raises nothing when  *)
(* the executable is missing, runs out of time, exits with a code other    *)
(* than 0 or exits with 0; the response is successful exactly when the     *)
(* exit code is 0, and a failed response carries exactly one error entry.  *)
(***************************************************************************)
C27_Expected == cli.calls > 0 /\ cli.run.kind \in {"missing", "timeout", "exit"}

C27_AlwaysResponse ==
    C27_Expected =>
        /\ cli.raised = ""
        /\ cli.response # <<>>
        /\ cli.response.success <=> (cli.run.kind = "exit" /\ cli.run.returncode = 0)
        /\ ~cli.response.success =>
               /\ ~cli.response.eh_none
               /\ Len(cli.response.error_history) = 1

C27_Witness ==
    /\ cli.calls = 2
    /\ cli.run.kind = "timeout"
    /\ ~cli.response.success
    /\ cli.response.error_history[1].error_type = "TimeoutError"

(***************************************************************************)
(* C28.  A success ends the call: after the first successful response of   *)
(* a backend the call invokes no backend, resolves none and sleeps not,    *)
(* and no candidate later in the order gets an error record or a           *)
(* statistics update.                                                      *)
(***************************************************************************)
\* the names that stand only at positions after j
C28_OnlyAfter(j) ==
    {providers_to_try[k] : k \in {m \in DOMAIN providers_to_try : m > j}}
    \ {providers_to_try[k] : k \in 1..j}

C28_After(i) ==
    LET ok == invocations[i]
    IN  /\ i = Len(invocations)
        /\ pc = "done"
        /\ raised = ""
        /\ result.success
        /\ idx = ok.pos
        /\ \A k \in DOMAIN resolutions :
               resolutions[k].at < ok.at /\ resolutions[k].pos <= ok.pos
        /\ \A k \in DOMAIN sleeps :
               \/ sleeps[k].pos < ok.pos
               \/ sleeps[k].pos = ok.pos /\ sleeps[k].after < ok.attempt
        /\ last_slept = 0
        /\ \A k \in DOMAIN error_history : error_history[k].timestamp < ok.at
        /\ \A n \in C28_OnlyAfter(ok.pos) :
               /\ provider_stats[n] = stats_at_start[n]
               /\ \A k \in DOMAIN error_history : error_history[k].provider # n
               /\ \A k \in DOMAIN result.error_history :
                      result.error_history[k].provider # n

C28_NothingAfter ==
    \A i \in DOMAIN invocations : invocations[i].outcome = "ok" => C28_After(i)

\* a call that has returned does nothing more
C28_Rests ==
    (pc = "done" /\ calls' = calls) =>
        /\ logvars' = logvars
        /\ error_history' = error_history
        /\ provider_stats' = provider_stats
        /\ result' = result
        /\ pc' = "done"

C28_SuccessIsTerminal == []C28_NothingAfter /\ [][C28_Rests]_vars

C28_Witness ==
    /\ Returned
    /\ result.success
    /\ idx = 1
    /\ RegisteredPositions = {1, 2, 3}
    /\ C28_OnlyAfter(1) # {}
    /\ Len(invocations) = 2
    /\ Len(sleeps) = 1

(***************************************************************************)
(* C29.  call() returns the "all_failed" response exactly when no          *)
(* registered candidate answered within its max_retries attempts: never    *)
(* while a registered candidate is untried or has attempts left, and       *)
(* always, as a return value and not an exception, once the last           *)
(* candidate is exhausted.                                                 *)
(***************************************************************************)
C29_AllFailed ==
    /\ Returned
    /\ result.provider = "all_failed"
    /\ ~result.success

\* the chain of position j is over without an answer
C29_Exhausted(j) ==
    \/ \E k \in DOMAIN resolutions : resolutions[k].pos = j /\ ~resolutions[k].ok
    \/ /\ \A a \in 0..(max_retries - 1) :
              \E k \in DOMAIN invocations :
                  /\ invocations[k].pos = j
                  /\ invocations[k].attempt = a
                  /\ invocations[k].outcome # "ok"
       /\ ~(idx = j /\ pc \in {"attempt", "sleep"})

C29_AllExhausted ==
    /\ pc \in {"select", "resolve", "attempt", "sleep", "done"}
    /\ raised = ""
    /\ \A j \in RegisteredPositions : C29_Exhausted(j)

C29_Safety ==
    /\ C29_AllFailed => C29_AllExhausted /\ NoneSucceeded
    /\ (Returned /\ NoneSucceeded) => C29_AllFailed
    /\ C29_AllExhausted => pc \in {"select", "done"} /\ NoneSucceeded
    /\ (C29_AllExhausted /\ pc = "done") => C29_AllFailed

C29_AllFailedIff == []C29_Safety /\ (C29_AllExhausted ~> C29_AllFailed)

C29_Witness ==
    /\ C29_AllFailed
    /\ RegisteredPositions = {1, 3}
    /\ max_retries = 2
    /\ \E k \in DOMAIN resolutions : resolutions[k].pos = 1 /\ ~resolutions[k].ok
    /\ Len(invocations) = 2

(***************************************************************************)
(* C30.  A backoff sleep happens only after a failed attempt that is       *)
(* followed by another attempt on the same backend: none after a           *)
(* backend's last attempt, none between leaving one backend and the first  *)
(* attempt on the next; and every backend's first sleep has the base       *)
(* initial_wait, whatever the previous backend's base had grown to.        *)
(***************************************************************************)
C30_FailedAt(j, a) ==
    \E k \in DOMAIN invocations :
        /\ invocations[k].pos = j
        /\ invocations[k].attempt = a
        /\ invocations[k].outcome # "ok"

\* attempt a of position j has been made or is the one about to be made
C30_AttemptAt(j, a) ==
    \/ \E k \in DOMAIN invocations :
           invocations[k].pos = j /\ invocations[k].attempt = a
    \/ pc = "attempt" /\ idx = j /\ attempt = a

C30_Between(k) ==
    LET s == sleeps[k]
    IN  /\ C30_FailedAt(s.pos, s.after)
        /\ C30_AttemptAt(s.pos, s.after + 1)
        /\ s.after + 1 < max_retries
        /\ s.provider = providers_to_try[s.pos]
        /\ \A m \in DOMAIN sleeps :
               (sleeps[m].pos = s.pos /\ sleeps[m].after = s.after) => m = k
        /\ s.after = 0 => s.base = initial_wait

C30_State == \A k \in DOMAIN sleeps : C30_Between(k)

\* the step that sleeps stands between a failed attempt and the next one
C30_SleepStep ==
    (Len(sleeps') = Len(sleeps) + 1) =>
        /\ invocations # <<>>
        /\ LastInvocation.outcome # "ok"
        /\ LastInvocation.pos = idx
        /\ LastInvocation.attempt = attempt
        /\ LastInvocation.at = clock
        /\ pc' = "attempt"
        /\ idx' = idx
        /\ attempt' = attempt + 1
        /\ attempt' < max_retries

\* the first attempt on a backend is not preceded by a sleep
C30_FirstAttemptStep ==
    (Len(invocations') = Len(invocations) + 1 /\ attempt = 0) =>
        /\ last_slept = 0
        /\ \A k \in DOMAIN sleeps : sleeps[k].pos < idx

C30_SleepOnlyBetween ==
    []C30_State /\ [][C30_SleepStep /\ C30_FirstAttemptStep]_vars

C30_Witness ==
    /\ Returned
    /\ initial_wait < max_wait
    /\ Len(sleeps) = 3
    /\ sleeps[1].pos = 1 /\ sleeps[2].pos = 1 /\ sleeps[2].base > initial_wait
    /\ sleeps[3].pos = 2 /\ sleeps[3].after = 0
    /\ \E k \in DOMAIN invocations :
           invocations[k].pos = 2 /\ invocations[k].attempt = 1

(***************************************************************************)
(* C31.  Every entry of the statistics table has successes >= 0,           *)
(* failures >= 0 and successes + failures >= 1; entries are never removed  *)
(* and counters never decrease from call to call; get_provider_stats()     *)
(* changes nothing and reports success_rate = successes / (successes +     *)
(* failures), a value in [0, 1].                                           *)
(***************************************************************************)
C31_Entry(e) ==
    /\ e.successes >= 0
    /\ e.failures >= 0
    /\ e.successes + e.failures >= 1

C31_Table == \A n \in Names : provider_stats[n].seen => C31_Entry(provider_stats[n])

C31_Grows ==
    \A n \in Names :
        provider_stats[n].seen =>
            /\ provider_stats'[n].seen
            /\ provider_stats'[n].successes >= provider_stats[n].successes
            /\ provider_stats'[n].failures >= provider_stats[n].failures

\* the rate <<p, q>> is s / (s + f) and lies in [0, 1]
C31_Rate(r, e) ==
    /\ r[2] > 0
    /\ r[1] * (e.successes + e.failures) = e.successes * r[2]
    /\ 0 <= r[1] /\ r[1] <= r[2]

C31_Read ==
    (facade'.reports # facade.reports) =>
        /\ provider_stats' = provider_stats
        /\ <<registry, cfgvars, pc, args, framevars, result, raised, clock, calls,
             logvars, updates>>' =
           <<registry, cfgvars, pc, args, framevars, result, raised, clock, calls,
             logvars, updates>>
        /\ DOMAIN facade'.report = {n \in Names : provider_stats[n].seen}
        /\ \A n \in DOMAIN facade'.report :
               /\ facade'.report[n].successes = provider_stats[n].successes
               /\ facade'.report[n].failures = provider_stats[n].failures
               /\ C31_Rate(facade'.report[n].success_rate, provider_stats[n])

C31_Statistics == []C31_Table /\ [][C31_Grows /\ C31_Read]_vars

C31_Witness ==
    /\ pc = "done"
    /\ calls = 2
    /\ facade.reports = 2
    /\ DOMAIN facade.report = {"a", "b"}
    /\ facade.report["a"].successes = 1 /\ facade.report["a"].failures = 1
    /\ facade.report["a"].success_rate = <<1, 2>>
    /\ facade.report["b"].success_rate = <<1, 1>>
    /\ provider_stats["b"].successes = 1

(***************************************************************************)
(* C32.  After any sequence of calls each backend's avg_time is the mean   *)
(* of the elapsed values passed to its statistics updates: avg_time times  *)
(* (successes + failures) is their sum, and each update computes           *)
(* newAvg = (oldAvg * (n - 1) + thisElapsed) / n with n the new count.     *)
(***************************************************************************)
C32_UpdatesOf(n) == SelectSeq(updates, LAMBDA u : u.name = n)

RECURSIVE C32_SumElapsed(_)
C32_SumElapsed(us) ==
    IF us = <<>> THEN 0 ELSE Head(us).elapsed + C32_SumElapsed(Tail(us))

C32_Total(e) == e.successes + e.failures

C32_Mean ==
    \A n \in Names :
        LET e == provider_stats[n]
            us == C32_UpdatesOf(n)
        IN  /\ e.seen <=> us # <<>>
            /\ C32_Total(e) = Len(us)
            /\ e.den > 0
            /\ e.num * C32_Total(e) = C32_SumElapsed(us) * e.den

\* one update: newAvg * n = oldAvg * (n - 1) + thisElapsed
C32_Update ==
    \A n \in Names :
        provider_stats'[n] # provider_stats[n] =>
            LET old == provider_stats[n]
                new == provider_stats'[n]
                u == updates'[Len(updates')]
            IN  /\ Len(updates') = Len(updates) + 1
                /\ u.name = n
                /\ C32_Total(new) = C32_Total(old) + 1
                /\ new.num * C32_Total(new) * old.den =
                       new.den * (old.num * (C32_Total(new) - 1) + u.elapsed * old.den)

C32_CumulativeMean == []C32_Mean /\ [][C32_Update]_vars

\* three updates of one backend with different elapsed values, and their
\* mean is not a whole number
C32_Witness ==
    /\ pc = "done"
    /\ calls = MaxMeanCalls
    /\ Len(C32_UpdatesOf("a")) = 3
    /\ C32_UpdatesOf("a")[1].elapsed # C32_UpdatesOf("a")[2].elapsed
    /\ provider_stats["a"].successes = 2
    /\ provider_stats["a"].den = 3

(***************************************************************************)
(* C33.  Within one call the error records of the invocation failures of   *)
(* one backend carry the attempt indices 1, 2, ..., n in the order they    *)
(* were appended; index 0 is used only for a resolution failure; every     *)
(* record names the registry name of the backend it was recorded for.      *)
(***************************************************************************)
\* the record was written for a failed invocation / a failed resolution
C33_OfInvocation(r) ==
    \E k \in DOMAIN invocations :
        /\ invocations[k].at = r.timestamp
        /\ invocations[k].outcome # "ok"
        /\ invocations[k].provider = r.provider

C33_OfResolution(r) ==
    \E k \in DOMAIN resolutions :
        /\ resolutions[k].at = r.timestamp
        /\ ~resolutions[k].ok
        /\ resolutions[k].provider = r.provider

C33_InvocationRecords(h, n) ==
    SelectSeq(h, LAMBDA r : r.provider = n /\ C33_OfInvocation(r))

C33_Numbered(h) ==
    /\ \A n \in Names :
           LET rs == C33_InvocationRecords(h, n)
           IN  \A i \in DOMAIN rs : rs[i].attempt = i
    /\ \A i \in DOMAIN h :
           /\ C33_OfInvocation(h[i]) \/ C33_OfResolution(h[i])
           /\ h[i].attempt = 0 <=> C33_OfResolution(h[i])

C33_AttemptIndices ==
    /\ C33_Numbered(error_history)
    /\ pc \in {"attempt", "sleep"} => C33_Numbered(local_errors)
    /\ Returned => C33_Numbered(result.error_history)

\* the same numbering, taken for each chain (position of the order) apart
C33_ChainRecords(h, j) ==
    SelectSeq(h, LAMBDA r :
        \E k \in DOMAIN invocations :
            /\ invocations[k].at = r.timestamp
            /\ invocations[k].pos = j
            /\ invocations[k].outcome # "ok")

C33_PerChain ==
    \A j \in DOMAIN providers_to_try :
        LET rs == C33_ChainRecords(error_history, j)
        IN  \A i \in DOMAIN rs :
                rs[i].attempt = i /\ rs[i].provider = providers_to_try[j]

(***************************************************************************)
(* C34.  call() never changes the caller's request: the messages list has  *)
(* the same length and the same elements after the call as before, for     *)
(* any number of retries and failovers, and the request sent on attempt 0  *)
(* of a later backend holds no error-context message injected for an       *)
(* earlier attempt.                                                        *)
(***************************************************************************)
C34_Injected(ms) == \E i \in DOMAIN ms : ms[i].content = "error_context"

C34_ListKept ==
    (calls > 0 /\ pc # "idle" /\ raised = "") =>
        /\ messages = OriginalMessages
        /\ Len(messages) = Len(OriginalMessages)
        /\ ~C34_Injected(messages)

C34_FirstAttempts ==
    \A k \in DOMAIN invocations :
        invocations[k].attempt = 0 =>
            /\ invocations[k].messages = OriginalMessages
            /\ ~C34_Injected(invocations[k].messages)

C34_RequestKept == C34_ListKept /\ C34_FirstAttempts

C34_Witness ==
    /\ Returned
    /\ args.has_messages
    /\ \E k \in DOMAIN invocations :
           /\ invocations[k].pos = 1
           /\ invocations[k].attempt = 1
           /\ C34_Injected(invocations[k].messages)
    /\ \E k \in DOMAIN invocations :
           /\ invocations[k].pos = 3
           /\ invocations[k].attempt = 0
           /\ invocations[k].messages = args.messages
    /\ messages = args.messages

(***************************************************************************)
(* C35.  A candidate's constructor is invoked exactly once per call in     *)
(* which the candidate is tried, and all attempts of that chain go to the  *)
(* one instance it returned; re-registering the name or registering a new  *)
(* name while the call is running does not change which backends the call  *)
(* tries.                                                                  *)
(***************************************************************************)
C35_ResolutionsAt(j) == {k \in DOMAIN resolutions : resolutions[k].pos = j}

\* the chain of position j has begun
C35_Tried(j) ==
    \/ j < idx
    \/ j = idx /\ pc \in {"attempt", "sleep", "done"}

C35_OnceAndSame ==
    /\ \A j \in DOMAIN providers_to_try :
           /\ Cardinality(C35_ResolutionsAt(j)) <= 1
           /\ (j \in RegisteredPositions /\ C35_Tried(j) /\ raised = "")
                  => Cardinality(C35_ResolutionsAt(j)) = 1
           /\ j \notin RegisteredPositions => C35_ResolutionsAt(j) = {}
    /\ \A k \in DOMAIN invocations :
           /\ invocations[k].pos \in RegisteredPositions
           /\ \E r \in C35_ResolutionsAt(invocations[k].pos) :
                  /\ resolutions[r].ok
                  /\ resolutions[r].at < invocations[k].at
                  /\ resolutions[r].ctor = invocations[k].adapter

\* while a call runs, its order and its set of registered names stay as they
\* were, whatever is registered meanwhile
C35_OrderKept ==
    (pc \notin {"idle", "done"} /\ calls' = calls) =>
        /\ providers_to_try' = providers_to_try
        /\ registered' = registered
        /\ (registry' # registry) =>
               <<pc, idx, adapter, attempt, invocations, resolutions>>' =
               <<pc, idx, adapter, attempt, invocations, resolutions>>

C35_OneInstance == []C35_OnceAndSame /\ [][C35_OrderKept]_vars

\* a was re-registered during its chain and b was registered after the call
\* began: both attempts of a went to the first instance, b was not tried
C35_Witness ==
    /\ Returned
    /\ providers_to_try = <<"a", "b">>
    /\ registered = {"a"}
    /\ registry["a"] = "K2" /\ registry["b"] # NoCtor
    /\ Len(invocations) = 2
    /\ invocations[1].adapter = "K1" /\ invocations[2].adapter = "K1"
    /\ \E i \in 1..Len(history) : history[i].raised = ""
    /\ result.provider = "all_failed"

(***************************************************************************)
(* C36.  When no name of the candidate order is registered, call()         *)
(* invokes and resolves nothing and returns the "all_failed" response      *)
(* with success = false, attempts = 0 and an empty error history, and      *)
(* leaves the statistics table as it was; call_llm then raises             *)
(* RuntimeError with the text "unknown error".                             *)
(***************************************************************************)
C36_NoneRegistered ==
    /\ calls > 0
    /\ pc # "idle"
    /\ raised = ""
    /\ RegisteredPositions = {}

C36_Empty ==
    C36_NoneRegistered =>
        /\ pc \in {"select", "done"}
        /\ invocations = <<>>
        /\ resolutions = <<>>
        /\ sleeps = <<>>
        /\ error_history = <<>>
        /\ provider_stats = stats_at_start
        /\ pc = "done" =>
               /\ result.provider = "all_failed"
               /\ ~result.success
               /\ result.content = ""
               /\ result.attempts = 0
               /\ result.error_history = <<>>
               /\ ~result.eh_none
               /\ call_llm.raised = "RuntimeError"
               /\ call_llm.attempts = 0
               /\ call_llm.last = ErrText("unknown error", 0, 0)

\* the second call of an orchestrator whose first call left statistics
C36_Witness ==
    /\ C36_NoneRegistered
    /\ pc = "done"
    /\ calls = 2
    /\ Len(providers_to_try) = 2
    /\ \E n \in Names : provider_stats[n].seen
    /\ \E n \in Names : registry[n] # NoCtor

(***************************************************************************)
(* C37.  call_llm and get_llm_stats work on one lazily created shared      *)
(* orchestrator: in a sequential run it is constructed at most once,       *)
(* every call_llm goes through that instance, and get_llm_stats shows the  *)
(* accumulated outcomes of all earlier call_llm calls.                     *)
(***************************************************************************)
\* the chains that ended on n with the given result, over all calls so far
C37_Outcomes(n, success) ==
    Len(SelectSeq(updates, LAMBDA u : u.name = n /\ u.success = success))

C37_OneInstance ==
    /\ facade.made <= 1
    /\ facade.instance = facade.made
    /\ facade.made = 0 <=> (facade.used = <<>> /\ facade.reports = 0)
    /\ facade.made = 0 => (calls = 0 /\ updates = <<>>)
    /\ \A i \in DOMAIN facade.used : facade.used[i] = 1
    /\ Len(facade.used) = IF facade.pc = "call" THEN facade.base + 1 ELSE calls
    /\ Len(facade.returned) = IF facade.pc = "call" THEN facade.base ELSE calls
    /\ \A n \in Names :
           /\ provider_stats[n].successes = C37_Outcomes(n, TRUE)
           /\ provider_stats[n].failures = C37_Outcomes(n, FALSE)

\* what get_llm_stats returns
C37_Report ==
    (facade'.reports # facade.reports) =>
        /\ DOMAIN facade'.report =
               {n \in Names : C37_Outcomes(n, TRUE) + C37_Outcomes(n, FALSE) > 0}
        /\ \A n \in DOMAIN facade'.report :
               /\ facade'.report[n].successes = C37_Outcomes(n, TRUE)
               /\ facade'.report[n].failures = C37_Outcomes(n, FALSE)
        /\ updates' = updates
        /\ provider_stats' = provider_stats \/ facade.made = 0

C37_SharedOrchestrator == []C37_OneInstance /\ [][C37_Report]_vars

\* two calls went through the one instance, the first failed and the second
\* was answered, and the statistics read afterwards show both
C37_Witness ==
    /\ facade.pc = "idle"
    /\ facade.made = 1
    /\ Len(facade.used) = 2
    /\ Len(facade.returned) = 2
    /\ facade.returned[1].raised = "RuntimeError"
    /\ facade.returned[2].raised = ""
    /\ facade.reports = 2
    /\ DOMAIN facade.report = {"a", "b"}
    /\ facade.report["a"].successes = 1 /\ facade.report["a"].failures = 1
    /\ facade.report["b"].failures = 1

====
